---- MODULE Spec2Model ----
(***************************************************************************)
(* Model of the EnergyYield diagnostics core: the Fault Recorder           *)
(* (ai_engine._record_fault), the Alert Manager (ai_engine._raise_alert,   *)
(* routes/api.clear_alert), the diagnostics cycle orchestrator             *)
(* (ai_engine.run_ai_jobs), the score functions, the Windowed Aggregator   *)
(* (analytics.generate_slot_statistics) and the Net-Gain Projector         *)
(* (analytics.net_gain_projection).                                        *)
(*                                                                         *)
(* Storage is modelled as the committed rows of a table (db...) plus the   *)
(* rows and changes pending in the background thread's ORM session         *)
(* (pend...).  A query of the session sees both (autoflush); commit makes  *)
(* the pending part durable, rollback discards it.                         *)
(*                                                                         *)
(* Timestamps are whole seconds.  Floating-point quantities are modelled   *)
(* in fixed point; the unit is stated where each is defined.               *)
(***************************************************************************)
EXTENDS Integers, Sequences, FiniteSets, TLC

VARIABLES
    dbFaults,      \* committed device_fault_logs rows
    pendFaults,    \* device_fault_logs rows added to the session, not committed
    faultCalls,    \* history: the last two _record_fault calls of the session
    nFaultCalls,   \* history: number of _record_fault calls made so far
    dbAlerts,      \* committed alerts rows
    pendAlerts,    \* alerts rows added to the session, not committed
    pendDetail,    \* pending detail updates of committed alerts: id -> detail
    alertCall,     \* history: the _raise_alert call that was the last step
    nAlertCalls,   \* history: number of _raise_alert calls made so far
    nClears,       \* history: number of clear_alert requests made so far
    dbSummaries,   \* committed ai_summary rows
    pendSummaries, \* ai_summary rows added to the session, not committed
    active,        \* the devices whose is_active flag is set
    movementLogs,  \* movement_logs rows (read only)
    events,        \* events rows (read only)
    telemetry,     \* telemetry rows (read only)
    explainer,     \* what the explanation call meets: an answer text, "" (no
                   \* credential or an empty answer), or EXPLAINER_FAILS
    dailySummaries, \* daily_summary rows (read only)
    commands,      \* commands rows (committed)
    handed,        \* the commands next_command has returned so far (history)
    tick,          \* number of run_ai_jobs runs started
    queue,         \* run_ai_jobs: the devices of the for loop not finished yet
    step,          \* run_ai_jobs: position inside the current device's cycle
    metrics,       \* run_ai_jobs: the metrics dict of the current cycle
    started,       \* history: devices whose cycle was started in this run
    cycleBase,     \* history: the committed tables when the current cycle began
    settings,      \* device_settings: device -> row, <<>> when there is none
    slotStats,     \* slot_statistics rows
    pendStats,     \* slot_statistics rows written in the session, not committed
    clock,         \* datetime.utcnow(), in seconds
    projection,    \* history: the net_gain_projection call that was the last step
    passLog,       \* history: the last two generate_slot_statistics passes
    scoreIn,       \* the history the score functions are evaluated on
    scoreOut       \* the scores computed so far in the cycle

faultVars == <<dbFaults, pendFaults, faultCalls, nFaultCalls>>

alertVars == <<dbAlerts, pendAlerts, pendDetail, alertCall, nAlertCalls, nClears>>

dataVars == <<active, movementLogs, events, telemetry, explainer,
             dailySummaries, commands, handed>>

cycleVars == <<dbSummaries, pendSummaries, tick, queue, step, metrics, started,
               cycleBase>>

analyticsVars == <<settings, slotStats, pendStats, clock, projection, passLog>>

scoreVars == <<scoreIn, scoreOut>>

\* the variables of the analytics and of the score functions
restVars == <<analyticsVars, scoreVars>>

vars == <<faultVars, alertVars, dataVars, cycleVars, restVars>>

-----------------------------------------------------------------------------
(* Small helpers.                                                          *)

Max2(a, b) == IF a >= b THEN a ELSE b

Min2(a, b) == IF a <= b THEN a ELSE b

Abs(x) == IF x >= 0 THEN x ELSE -x

MaxOf(S) == CHOOSE x \in S : \A y \in S : y <= x

\* The next autoincrement primary key of a table holding `rows`.
NextId(rows) == IF rows = {} THEN 1 ELSE MaxOf({r.id : r \in rows}) + 1

-----------------------------------------------------------------------------
(* Bounds of the model.                                                    *)

MaxCalls == 3          \* _record_fault calls in one behaviour of SpecFault
MaxRaises == 3         \* _raise_alert calls in one behaviour of SpecAlert
MaxClears == 1         \* clear_alert requests in one behaviour

Devices == {"dev1", "dev2"}

FaultTypes == {"power_rail_drop", "rtc_unstable"}

\* Timestamps offered to _record_fault: they straddle the 30 s window
\* (gaps of 10, 20, 30 and 40 seconds all occur).
FaultTimes == {0, 20, 30, 40}

\* severity, details_json and correlated_move_id a call may pass (0 = None).
FaultPayloads ==
    { [severity |-> "critical", details |-> "dip", move |-> 1],
      [severity |-> "warn",     details |-> "count", move |-> 0] }

\* The history keeps the payload of the latest call only.
NoPayload == [severity |-> "-", details |-> "-", move |-> 0]

-----------------------------------------------------------------------------
(* Fault Recorder: ai_engine._record_fault.                                *)

FAULT_WINDOW_S == 30

\* What the session's query sees: committed rows and flushed pending rows.
FaultView == dbFaults \cup pendFaults

\* Mutant of FaultMatches: the query looks back only (ts - 30 .. ts).
FaultMatches_lookback(view, device_id, ts, fault_type) ==
    { r \in view : /\ r.device_id = device_id
                   /\ r.fault_type = fault_type
                   /\ r.ts >= ts - FAULT_WINDOW_S
                   /\ r.ts <= ts }

\* The rows the dedup query of _record_fault matches.
FaultMatches(view, device_id, ts, fault_type) ==
    { r \in view : /\ r.device_id = device_id
                   /\ r.fault_type = fault_type
                   /\ r.ts >= ts - FAULT_WINDOW_S
                   /\ r.ts <= ts + FAULT_WINDOW_S }

\* Mutant of NewestFault: order_by(ts.asc()).first()
NewestFault_asc(rows) == CHOOSE r \in rows : \A q \in rows : q.ts >= r.ts

\* order_by(ts.desc()).first()
NewestFault(rows) == CHOOSE r \in rows : \A q \in rows : q.ts <= r.ts

\* Mutant of _record_fault: the dedup lookup left out.
_record_fault_insert(view, device_id, ts, fault_type, severity, details, move) ==
    [inserted |-> TRUE,
     row |-> [id |-> NextId(view), device_id |-> device_id, ts |-> ts,
              fault_type |-> fault_type, severity |-> severity,
              details |-> details, correlated_move_id |-> move]]

\* _record_fault on the session view `view`: the row it returns and whether
\* it added that row to the session.  It never commits.
_record_fault(view, device_id, ts, fault_type, severity, details, move) ==
    LET existing == FaultMatches(view, device_id, ts, fault_type)
    IN  IF existing # {}
        THEN [inserted |-> FALSE, row |-> NewestFault(existing)]
        ELSE [inserted |-> TRUE,
              row |-> [id |-> NextId(view), device_id |-> device_id, ts |-> ts,
                       fault_type |-> fault_type, severity |-> severity,
                       details |-> details, correlated_move_id |-> move]]

-----------------------------------------------------------------------------
(* Alert Manager: ai_engine._raise_alert and routes/api.clear_alert.       *)

AlertTitles == {"Power rail instability", "RTC instability"}

AlertSeverities == {"critical", "warn"}

AlertDetails == {"supply dip", "rtc loss"}

\* utils/markdown_render.render_markdown on plain text: one paragraph.
render_markdown(text) == IF text = "" THEN "" ELSE "<p>" \o text \o "</p>"

\* A committed row as the session sees it: with its pending detail update.
WithPendingDetail(r) ==
    IF r.id \in DOMAIN pendDetail
    THEN [r EXCEPT !.detail = pendDetail[r.id],
                   !.detail_html = render_markdown(pendDetail[r.id])]
    ELSE r

\* What the session's query sees: committed rows (with the session's own
\* pending updates) and flushed pending rows.
AlertView == {WithPendingDetail(r) : r \in dbAlerts} \cup pendAlerts

\* Alert.query.filter_by(device_id=..., title=..., cleared=False)
UnclearedAlerts(rows, device_id, title) ==
    { r \in rows : r.device_id = device_id /\ r.title = title /\ ~r.cleared }

\* order_by(created_at.desc()).first()
NewestAlert(rows) == CHOOSE r \in rows : \A q \in rows : q.created_at <= r.created_at

\* Mutant of _raise_alert: always inserts a new row.
_raise_alert_insert(device_id, severity, title, detail, now) ==
    [inserted |-> TRUE,
     row |-> [id |-> NextId(AlertView), device_id |-> device_id,
              severity |-> severity, title |-> title, detail |-> detail,
              detail_html |-> render_markdown(detail),
              created_at |-> now, cleared |-> FALSE]]

\* Mutant of _raise_alert: the lookup without its cleared=False filter.
_raise_alert_anyrow(device_id, severity, title, detail, now) ==
    LET existing == { r \in AlertView :
                        r.device_id = device_id /\ r.title = title }
    IN  IF existing # {}
        THEN [inserted |-> FALSE,
              row |-> [NewestAlert(existing) EXCEPT
                          !.detail = detail,
                          !.detail_html = render_markdown(detail)]]
        ELSE [inserted |-> TRUE,
              row |-> [id |-> NextId(AlertView), device_id |-> device_id,
                       severity |-> severity, title |-> title, detail |-> detail,
                       detail_html |-> render_markdown(detail),
                       created_at |-> now, cleared |-> FALSE]]

\* Mutant of _raise_alert: an existing row takes the severity of the call.
_raise_alert_severity(device_id, severity, title, detail, now) ==
    LET existing == UnclearedAlerts(AlertView, device_id, title)
    IN  IF existing # {}
        THEN [inserted |-> FALSE,
              row |-> [NewestAlert(existing) EXCEPT
                          !.severity = severity,
                          !.detail = detail,
                          !.detail_html = render_markdown(detail)]]
        ELSE [inserted |-> TRUE,
              row |-> [id |-> NextId(AlertView), device_id |-> device_id,
                       severity |-> severity, title |-> title, detail |-> detail,
                       detail_html |-> render_markdown(detail),
                       created_at |-> now, cleared |-> FALSE]]

\* _raise_alert on the session: the row it returns (as it is after the
\* call) and whether that row was inserted.  It never commits.
_raise_alert(device_id, severity, title, detail, now) ==
    LET existing == UnclearedAlerts(AlertView, device_id, title)
    IN  IF existing # {}
        THEN [inserted |-> FALSE,
              row |-> [NewestAlert(existing) EXCEPT
                          !.detail = detail,
                          !.detail_html = render_markdown(detail)]]
        ELSE [inserted |-> TRUE,
              row |-> [id |-> NextId(AlertView), device_id |-> device_id,
                       severity |-> severity, title |-> title, detail |-> detail,
                       detail_html |-> render_markdown(detail),
                       created_at |-> now, cleared |-> FALSE]]

\* The session after _raise_alert returned `res`: a new row is pending, a
\* pending row is changed in place, a committed row gets a pending update.
PendAlertsAfter(res) ==
    IF res.inserted THEN pendAlerts \cup {res.row}
    ELSE {IF r.id = res.row.id THEN res.row ELSE r : r \in pendAlerts}

PendDetailAfter(res) ==
    IF ~res.inserted /\ (\E r \in dbAlerts : r.id = res.row.id)
    THEN [i \in DOMAIN pendDetail \cup {res.row.id} |->
             IF i = res.row.id THEN res.row.detail ELSE pendDetail[i]]
    ELSE pendDetail

\* db.session.commit() for the alerts table.  An UPDATE writes the detail
\* columns only: the cleared flag stays as the operator committed it.
AlertsCommitted == {WithPendingDetail(r) : r \in dbAlerts} \cup pendAlerts

\* clear_alert: the operator's request sets cleared on a committed row and
\* commits in its own session.
clear_alert(alert_id) ==
    {IF r.id = alert_id THEN [r EXCEPT !.cleared = TRUE] ELSE r : r \in dbAlerts}

-----------------------------------------------------------------------------
(* Diagnostic modules that record faults: ai_engine._power_rail_analysis,  *)
(* _rtc_stability, _sensor_fault_patterns.  Each takes the session view    *)
(* of the fault log and returns, with its result, the rows it added.       *)

DAY_S == 86400
RAIL_WINDOW_S == 20        \* post-move window for a rail dip
RAIL_EVENT_S == 10         \* post-move window for reset / low supply events
LOW_RAIL_CV == 470         \* 4.7 V, in centivolts
HOUR_S == 3600

None == -1                 \* Python None for a timestamp or a voltage

\* str.lower() / ilike on the event types that occur.
Lower(t) == CASE t = "RESET" -> "reset"
              [] t = "RTC_LOST" -> "rtc_lost"
              [] OTHER -> t

\* _clamp(val, lo, hi)
_clamp(val, lo, hi) == Max2(lo, Min2(hi, val))

\* a / b rounded to the nearest integer (a >= 0, b > 0)
RoundDiv(a, b) == (2 * a + b) \div (2 * b)

\* order_by(ts.asc()).all(): rows in ascending timestamp order (by id
\* among equal timestamps).
RECURSIVE AscByTs(_)
AscByTs(S) ==
    IF S = {} THEN <<>>
    ELSE LET m == CHOOSE x \in S : \A y \in S :
                      x.ts < y.ts \/ (x.ts = y.ts /\ x.id <= y.id)
         IN  <<m>> \o AscByTs(S \ {m})

\* next((r for r in evs if 0 <= (r.ts - move.ts) <= 10), None), as its ts
\* next(...) taking events up to 10 s before the move as well (mutant).
FirstNearby_abs(evs, move) ==
    LET near(e) == Abs(e.ts - move.ts) <= RAIL_EVENT_S
        hits == SelectSeq(evs, near)
    IN  IF hits = <<>> THEN None ELSE hits[1].ts

FirstNearby(evs, move) ==
    LET near(e) == e.ts - move.ts >= 0 /\ e.ts - move.ts <= RAIL_EVENT_S
        hits == SelectSeq(evs, near)
    IN  IF hits = <<>> THEN None ELSE hits[1].ts

\* The lowest rail voltage below 4.7 V within 20 s after the move, or None.
RailDip(device_id, move) ==
    LET low == { t \in telemetry : /\ t.device_id = device_id
                                   /\ t.ts >= move.ts
                                   /\ t.ts <= move.ts + RAIL_WINDOW_S
                                   /\ t.v_sys_5v < LOW_RAIL_CV }
    IN  IF low = {} THEN None
        ELSE (CHOOSE t \in low : \A q \in low : t.v_sys_5v <= q.v_sys_5v).v_sys_5v

\* The for loop of _power_rail_analysis over the moves left in `moves`.
RECURSIVE RailLoop(_, _, _, _, _, _)
RailLoop(view, device_id, moves, resets, lows, acc) ==
    IF moves = <<>> THEN acc
    ELSE
      LET move == Head(moves)
          dip == RailDip(device_id, move)
          reset_nearby == FirstNearby(resets, move)
          low_supply_nearby == FirstNearby(lows, move)
      IN  IF dip # None \/ reset_nearby # None \/ low_supply_nearby # None
          THEN
            LET res == _record_fault(view \cup acc.added, device_id,
                          move.ts + RAIL_WINDOW_S, "power_rail_drop", "critical",
                          [move_ts |-> move.ts, dip_voltage |-> dip,
                           reset_ts |-> reset_nearby,
                           low_supply |-> low_supply_nearby],
                          move.id)
            IN  RailLoop(view, device_id, Tail(moves), resets, lows,
                    [hits |-> acc.hits + 1,
                     added |-> IF res.inserted THEN acc.added \cup {res.row}
                                               ELSE acc.added,
                     fault_logs |-> Append(acc.fault_logs, res.row.id)])
          ELSE RailLoop(view, device_id, Tail(moves), resets, lows, acc)

\* _power_rail_analysis; power_rail_risk in thousandths (round(risk, 3)).
_power_rail_analysis(view, device_id, now) ==
    LET since == now - DAY_S
        moves == AscByTs({m \in movementLogs :
                             m.device_id = device_id /\ m.ts >= since})
        evs == AscByTs({e \in events : e.device_id = device_id /\ e.ts >= since})
        isReset(e) == Lower(e.event_type) = "reset"
        isLow(e) == Lower(e.event_type) \in {"low_supply", "brownout"}
        resets == SelectSeq(evs, isReset)
        lows == SelectSeq(evs, isLow)
        out == RailLoop(view, device_id, moves, resets, lows,
                        [hits |-> 0, added |-> {}, fault_logs |-> <<>>])
    IN  [power_rail_risk |->
             _clamp(RoundDiv(1200 * out.hits, Max2(Len(moves), 1)), 0, 1000),
         reset_frequency |-> Len(resets),
         fault_logs |-> out.fault_logs,
         added |-> out.added]

RTC_TOLERATED == 3
RTC_PENALTY == 10

\* The score line of _rtc_stability without its floor at 0 (mutant).
RtcScore_nofloor(rtc_count) ==
    100 - Max2(0, (rtc_count - RTC_TOLERATED) * RTC_PENALTY)

\* score = 100 - max(0, (rtc_count - 3) * 10); score = max(score, 0)
RtcScore(rtc_count) ==
    Max2(100 - Max2(0, (rtc_count - RTC_TOLERATED) * RTC_PENALTY), 0)

\* _rtc_stability recording its fault from the third loss on (mutant).
_rtc_stability_ge(view, device_id, now) ==
    LET rtc_events == AscByTs({e \in events :
                                  /\ e.device_id = device_id
                                  /\ e.ts >= now - DAY_S
                                  /\ Lower(e.event_type) = "rtc_lost"})
        rtc_count == Len(rtc_events)
        res == _record_fault(view, device_id, rtc_events[rtc_count].ts,
                             "rtc_unstable", "warn",
                             [count_last_day |-> rtc_count], 0)
    IN  [rtc_reliability_score |-> RtcScore(rtc_count),
         rtc_count |-> rtc_count,
         added |-> IF rtc_count >= RTC_TOLERATED /\ res.inserted
                   THEN {res.row} ELSE {}]

\* _rtc_stability
_rtc_stability(view, device_id, now) ==
    LET rtc_events == AscByTs({e \in events :
                                  /\ e.device_id = device_id
                                  /\ e.ts >= now - DAY_S
                                  /\ Lower(e.event_type) = "rtc_lost"})
        rtc_count == Len(rtc_events)
        res == _record_fault(view, device_id, rtc_events[rtc_count].ts,
                             "rtc_unstable", "warn",
                             [count_last_day |-> rtc_count], 0)
    IN  [rtc_reliability_score |-> RtcScore(rtc_count),
         rtc_count |-> rtc_count,
         added |-> IF rtc_count > RTC_TOLERATED /\ res.inserted
                   THEN {res.row} ELSE {}]

\* _sensor_fault_patterns: the rows it adds (at most one).
_sensor_fault_patterns(view, device_id, now) ==
    LET evs == AscByTs({e \in events :
                           /\ e.device_id = device_id
                           /\ e.ts >= now - DAY_S
                           /\ Lower(e.event_type) = "sensor_fault"})
        same_hour(ev) == { i \in 1..Len(evs) :
                              /\ evs[i].ts - ev.ts >= 0
                              /\ evs[i].ts - ev.ts <= HOUR_S }
        found == { i \in 1..Len(evs) : Cardinality(same_hour(evs[i])) >= 2 }
    IN  IF Len(evs) < 2 \/ found = {} THEN {}
        ELSE LET ev == evs[CHOOSE i \in found : \A j \in found : i <= j]
                 res == _record_fault(view, device_id, ev.ts,
                            "sensor_wiring_instability", "warn",
                            [count_hour |-> Cardinality(same_hour(ev)),
                             example_ts |-> ev.ts], 0)
             IN  IF res.inserted THEN {res.row} ELSE {}

-----------------------------------------------------------------------------
(* SpecFault: the diagnostic modules call _record_fault with any           *)
(* timestamps in any order within one session (commit and rollback are     *)
(* the orchestrator's, see SpecCycle).                                     *)

FaultIdle ==
    dbFaults = {} /\ pendFaults = {} /\ faultCalls = <<>> /\ nFaultCalls = 0

AlertIdle ==
    /\ dbAlerts = {} /\ pendAlerts = {} /\ pendDetail = <<>>
    /\ alertCall = <<>> /\ nAlertCalls = 0 /\ nClears = 0

NoMetrics == [power_rail_risk |-> 0, rtc_reliability_score |-> 100]

DataIdle ==
    /\ active = {} /\ movementLogs = {} /\ events = {} /\ telemetry = {}
    /\ explainer = "" /\ dailySummaries = {}
    /\ commands = {} /\ handed = <<>>

CycleIdle ==
    /\ dbSummaries = {} /\ pendSummaries = {} /\ tick = 0 /\ queue = <<>>
    /\ step = "idle" /\ metrics = NoMetrics /\ started = {} /\ cycleBase = <<>>

AnalyticsIdle ==
    /\ settings = [d \in Devices |-> <<>>] /\ slotStats = {} /\ pendStats = {}
    /\ clock = 0
    /\ projection = <<>> /\ passLog = <<>>

ScoreIdle == scoreIn = <<>> /\ scoreOut = <<>>

InitFault ==
    FaultIdle /\ AlertIdle /\ DataIdle /\ CycleIdle /\ AnalyticsIdle /\ ScoreIdle

RecordFaultCall ==
    /\ nFaultCalls < MaxCalls
    /\ nFaultCalls' = nFaultCalls + 1
    /\ \E d \in Devices, ts \in FaultTimes, ft \in FaultTypes, p \in FaultPayloads :
          LET res == _record_fault(FaultView, d, ts, ft, p.severity, p.details, p.move)
              call == [device_id |-> d, ts |-> ts, fault_type |-> ft, payload |-> p,
                       inserted |-> res.inserted, row |-> res.row]
          IN  /\ pendFaults' = IF res.inserted THEN pendFaults \cup {res.row}
                                               ELSE pendFaults
              /\ faultCalls' = IF faultCalls = <<>> THEN <<call>>
                               ELSE <<[faultCalls[Len(faultCalls)]
                                          EXCEPT !.payload = NoPayload], call>>
              /\ UNCHANGED <<dbFaults, alertVars, dataVars, restVars, cycleVars>>

NextFault == RecordFaultCall

SpecFault == InitFault /\ [][NextFault]_vars

\* The last call and the one before it (defined when two calls were made).
PrevFaultCall == faultCalls[1]

LastFaultCall == faultCalls[Len(faultCalls)]

\* The last two calls passed the same device and fault type and timestamps
\* within 30 s of each other.
TwoCallsWithinWindow ==
    /\ Len(faultCalls) = 2
    /\ PrevFaultCall.device_id = LastFaultCall.device_id
    /\ PrevFaultCall.fault_type = LastFaultCall.fault_type
    /\ Abs(PrevFaultCall.ts - LastFaultCall.ts) <= FAULT_WINDOW_S

\* `row` is the newest row of its (device, fault type) within 30 s of ts.
NewestInWindow(row, ts) ==
    LET near == { r \in FaultView : /\ r.device_id = row.device_id
                                    /\ r.fault_type = row.fault_type
                                    /\ Abs(r.ts - ts) <= FAULT_WINDOW_S }
    IN  row \in near /\ \A r \in near : r.ts <= row.ts

\* C1: in every reachable state of the fault log no two rows of the same
\* (device, fault_type) have timestamps within 30 seconds of each other.
C1_NoFaultsWithinWindow ==
    \A r \in FaultView : \A q \in FaultView :
        (r # q /\ r.device_id = q.device_id /\ r.fault_type = q.fault_type)
            => Abs(r.ts - q.ts) > FAULT_WINDOW_S

\* C1 witness: the log holds two rows of one (device, fault_type), and the
\* last call was answered with an existing row instead of a new one.
C1_Witness ==
    /\ \E r \in FaultView : \E q \in FaultView :
          r # q /\ r.device_id = q.device_id /\ r.fault_type = q.fault_type
    /\ faultCalls # <<>>
    /\ ~LastFaultCall.inserted

-----------------------------------------------------------------------------
(* SpecAlert: _raise_alert calls of the background session interleaved     *)
(* with the operator's clear requests; the session commits or rolls back.  *)

InitAlert ==
    FaultIdle /\ AlertIdle /\ DataIdle /\ CycleIdle /\ AnalyticsIdle /\ ScoreIdle

RaiseAlertCall ==
    /\ nAlertCalls < MaxRaises
    /\ nAlertCalls' = nAlertCalls + 1
    /\ \E d \in Devices, sev \in AlertSeverities, t \in AlertTitles,
          det \in AlertDetails :
          LET res == _raise_alert(d, sev, t, det, nAlertCalls + 1)
          IN  /\ pendAlerts' = PendAlertsAfter(res)
              /\ pendDetail' = PendDetailAfter(res)
              /\ alertCall' = <<[device_id |-> d, severity |-> sev, title |-> t,
                                 detail |-> det, before |-> AlertView,
                                 inserted |-> res.inserted, row |-> res.row]>>
    /\ UNCHANGED <<dbAlerts, nClears, faultVars, dataVars, restVars, cycleVars>>

ClearAlertRequest ==
    /\ nClears < MaxClears
    /\ nClears' = nClears + 1
    /\ \E r \in dbAlerts :
          /\ ~r.cleared
          /\ dbAlerts' = clear_alert(r.id)
    /\ alertCall' = <<>>
    /\ UNCHANGED <<pendAlerts, pendDetail, nAlertCalls, faultVars, dataVars, restVars,
                   cycleVars>>

AlertCommit ==
    /\ pendAlerts # {} \/ pendDetail # <<>>
    /\ dbAlerts' = AlertsCommitted
    /\ pendAlerts' = {}
    /\ pendDetail' = <<>>
    /\ alertCall' = <<>>
    /\ UNCHANGED <<nAlertCalls, nClears, faultVars, dataVars, restVars, cycleVars>>

AlertRollback ==
    /\ pendAlerts # {} \/ pendDetail # <<>>
    /\ pendAlerts' = {}
    /\ pendDetail' = <<>>
    /\ alertCall' = <<>>
    /\ UNCHANGED <<dbAlerts, nAlertCalls, nClears, faultVars, dataVars, restVars, cycleVars>>

NextAlert == RaiseAlertCall \/ ClearAlertRequest \/ AlertCommit \/ AlertRollback

SpecAlert == InitAlert /\ [][NextAlert]_vars

\* At most one uncleared row per (device, title) among `rows`.
OneUnclearedPerTitle(rows) ==
    \A d \in Devices : \A t \in AlertTitles :
        Cardinality(UnclearedAlerts(rows, d, t)) <= 1

\* C3: after any sequence of raise_alert calls and operator clear actions
\* there is at most one uncleared Alert row per (device, title), among the
\* committed rows and among the rows the session sees; a raise whose
\* (device, title) already has an uncleared row inserts nothing and sets
\* that row's detail.
C3_OneUnclearedAlertPerTitle ==
    /\ OneUnclearedPerTitle(dbAlerts)
    /\ OneUnclearedPerTitle(AlertView)
    /\ alertCall # <<>> =>
          LET c == alertCall[1]
              had == UnclearedAlerts(c.before, c.device_id, c.title)
          IN  had # {} =>
                /\ ~c.inserted
                /\ {r.id : r \in AlertView} = {r.id : r \in c.before}
                /\ \E r \in AlertView :
                      /\ r.id \in {q.id : q \in had}
                      /\ r.detail = c.detail
                      /\ r.detail_html = render_markdown(c.detail)

\* C3 witness: a raise found an uncleared row of its (device, title) with
\* another detail and updated it, while a cleared row of the same
\* (device, title) exists as well.
C3_Witness ==
    /\ alertCall # <<>>
    /\ ~alertCall[1].inserted
    /\ \E r \in alertCall[1].before :
          r.id = alertCall[1].row.id /\ r.detail # alertCall[1].detail
    /\ \E r \in AlertView :
          /\ r.cleared
          /\ r.device_id = alertCall[1].device_id
          /\ r.title = alertCall[1].title

-----------------------------------------------------------------------------
(* Diagnostics cycle orchestrator: ai_engine.run_ai_jobs.                  *)

MaxTicks == 2              \* run_ai_jobs runs in one behaviour of SpecCycle

CYCLE_NOW == DAY_S + HOUR_S         \* evaluation time of the runs (seconds)
RISK_ALERT == 400          \* power_rail_risk > 0.4, in thousandths
RTC_ALERT_SCORE == 70      \* rtc_reliability_score < 70
FAULT_HISTORY_LIMIT == 20  \* _assemble_summary: .limit(20)

DeviceOrder == <<"dev1", "dev2">>

\* Device.query.filter_by(is_active=True).all()
ActiveDevices == SelectSeq(DeviceOrder, LAMBDA d : d \in active)

\* Histories a device may have: its moves, the reset events and rail dips
\* after them, and the number of rtc_lost events in the trailing 24 h.
\* Moves at 10000 and 10010 lie within the 30 s fault window of each other;
\* one hit in three moves gives power_rail_risk exactly 0.4; 6 and 7
\* rtc_lost events give scores 70 and 60.
Histories ==
    { [moves |-> {}, resets |-> {}, dips |-> {}, rtc_lost |-> 3],
      [moves |-> {}, resets |-> {}, dips |-> {}, rtc_lost |-> 7],
      [moves |-> {10000, 10010, 20000}, resets |-> {10005}, dips |-> {},
       rtc_lost |-> 6],
      [moves |-> {10000, 10010}, resets |-> {10005, 10015}, dips |-> {},
       rtc_lost |-> 7],
      [moves |-> {10000, 20000}, resets |-> {}, dips |-> {20010}, rtc_lost |-> 3],
      [moves |-> {10000}, resets |-> {9995, 10005}, dips |-> {}, rtc_lost |-> 3] }

DevNo(d) == IF d = "dev1" THEN 1 ELSE 2

\* Primary keys of the history rows: distinct per table.
TimeNo(t) == 10 * (t \div 10000) + ((t % 100) \div 10)

MovementRows(d, h) ==
    { [id |-> 100 * DevNo(d) + TimeNo(t), device_id |-> d, ts |-> t]
        : t \in h.moves }

\* The rtc_lost events inside the trailing 24 h and one before it; with
\* 7 of them also two sensor_fault events 10 minutes apart.
EventRows(d, h) ==
    { [id |-> 10000 * DevNo(d) + TimeNo(t), device_id |-> d, ts |-> t,
       event_type |-> "reset"] : t \in h.resets }
    \cup { [id |-> 10000 * DevNo(d) + 1000 + i, device_id |-> d,
            ts |-> 30000 + 1000 * i,
            event_type |-> IF i = 1 THEN "RTC_LOST" ELSE "rtc_lost"]
             : i \in 1..h.rtc_lost }
    \cup { [id |-> 10000 * DevNo(d) + 1000, device_id |-> d, ts |-> 100,
            event_type |-> "rtc_lost"] }
    \cup { [id |-> 10000 * DevNo(d) + 2000 + i, device_id |-> d,
            ts |-> 50000 + 600 * i,
            event_type |-> "sensor_fault"] : i \in 1..(h.rtc_lost - 5) }

TelemetryRows(d, h) ==
    { [device_id |-> d, ts |-> t, v_sys_5v |-> 450] : t \in h.dips }
    \cup { [device_id |-> d, ts |-> t + 5, v_sys_5v |-> 500] : t \in h.moves }

Snapshot == [faults |-> dbFaults, alerts |-> dbAlerts, summaries |-> dbSummaries]

\* client.models.generate_content raises (network, quota, timeout).
EXPLAINER_FAILS == "<exception>"

ExplainerOutcomes == {"", EXPLAINER_FAILS, "Panel output is stable."}

InitCycle ==
    /\ FaultIdle /\ AlertIdle /\ AnalyticsIdle /\ ScoreIdle
    /\ dbSummaries = {} /\ pendSummaries = {}
    /\ active \in (SUBSET Devices) \ {{}}
    /\ \E h \in [Devices -> Histories] :
          /\ movementLogs = UNION {MovementRows(d, h[d]) : d \in Devices}
          /\ events = UNION {EventRows(d, h[d]) : d \in Devices}
          /\ telemetry = UNION {TelemetryRows(d, h[d]) : d \in Devices}
    /\ explainer \in ExplainerOutcomes /\ dailySummaries = {}
    /\ commands = {} /\ handed = <<>>
    /\ tick = 0 /\ queue = <<>> /\ step = "idle" /\ metrics = NoMetrics
    /\ started = {} /\ cycleBase = <<>>

\* The device whose cycle is running.
Current == Head(queue)

CycleSteps == {"signals", "power_rail", "rtc", "sensor_faults", "alert_rail",
               "alert_rtc", "summary"}

InCycle == step \in CycleSteps \cup {"explain", "commit"}

\* run_ai_jobs is called: the active devices are listed and the loop starts.
StartRun ==
    /\ step \in {"idle", "done"}
    /\ tick < MaxTicks
    /\ tick' = tick + 1
    /\ queue' = ActiveDevices
    /\ step' = IF ActiveDevices = <<>> THEN "done" ELSE "signals"
    /\ started' = IF ActiveDevices = <<>> THEN {} ELSE {Head(ActiveDevices)}
    /\ cycleBase' = Snapshot
    /\ metrics' = NoMetrics
    /\ UNCHANGED <<faultVars, alertVars, dataVars, restVars, dbSummaries, pendSummaries>>

\* _dust_shading, _sensor_health, _forecast_next_hour, _efficiency_score:
\* queries only (the score functions are modelled under SpecScores).
Signals ==
    /\ step = "signals"
    /\ step' = "power_rail"
    /\ UNCHANGED <<faultVars, alertVars, dataVars, restVars, dbSummaries, pendSummaries,
                   tick, queue, metrics, started, cycleBase>>

\* _analyze_forensics: _power_rail_analysis
PowerRail ==
    /\ step = "power_rail"
    /\ LET out == _power_rail_analysis(FaultView, Current, CYCLE_NOW)
       IN  /\ pendFaults' = pendFaults \cup out.added
           /\ metrics' = [metrics EXCEPT !.power_rail_risk = out.power_rail_risk]
    /\ step' = "rtc"
    /\ UNCHANGED <<dbFaults, faultCalls, nFaultCalls, alertVars, dataVars, restVars,
                   dbSummaries, pendSummaries, tick, queue, started, cycleBase>>

\* _analyze_forensics: _rtc_stability
Rtc ==
    /\ step = "rtc"
    /\ LET out == _rtc_stability(FaultView, Current, CYCLE_NOW)
       IN  /\ pendFaults' = pendFaults \cup out.added
           /\ metrics' = [metrics EXCEPT
                             !.rtc_reliability_score = out.rtc_reliability_score]
    /\ step' = "sensor_faults"
    /\ UNCHANGED <<dbFaults, faultCalls, nFaultCalls, alertVars, dataVars, restVars,
                   dbSummaries, pendSummaries, tick, queue, started, cycleBase>>

\* _analyze_forensics: _sensor_fault_patterns
SensorFaults ==
    /\ step = "sensor_faults"
    /\ pendFaults' = pendFaults
                       \cup _sensor_fault_patterns(FaultView, Current, CYCLE_NOW)
    /\ step' = "alert_rail"
    /\ UNCHANGED <<dbFaults, faultCalls, nFaultCalls, alertVars, dataVars, restVars,
                   dbSummaries, pendSummaries, tick, queue, metrics, started,
                   cycleBase>>

\* Mutant of RaisePowerRail: the threshold is >= 0.4.
RaisePowerRail_ge(m) == m.power_rail_risk >= RISK_ALERT

\* if metrics["power_rail"].get("power_rail_risk", 0) > 0.4
RaisePowerRail(m) == m.power_rail_risk > RISK_ALERT

\* if metrics["rtc"].get("rtc_reliability_score", 100) < 70
RaiseRtc(m) == m.rtc_reliability_score < RTC_ALERT_SCORE

\* if power_rail_risk > 0.4: _raise_alert(..., "critical", ...)
AlertPowerRail ==
    /\ step = "alert_rail"
    /\ LET res == _raise_alert(Current, "critical", "Power rail instability",
                               "supply dip", tick)
       IN  IF RaisePowerRail(metrics)
           THEN /\ pendAlerts' = PendAlertsAfter(res)
                /\ pendDetail' = PendDetailAfter(res)
           ELSE UNCHANGED <<pendAlerts, pendDetail>>
    /\ step' = "alert_rtc"
    /\ UNCHANGED <<dbAlerts, alertCall, nAlertCalls, nClears, faultVars, dataVars, restVars,
                   dbSummaries, pendSummaries, tick, queue, metrics, started,
                   cycleBase>>

\* if rtc_reliability_score < 70: _raise_alert(..., "warn", ...)
AlertRtc ==
    /\ step = "alert_rtc"
    /\ LET res == _raise_alert(Current, "warn", "RTC instability", "rtc loss", tick)
       IN  IF RaiseRtc(metrics)
           THEN /\ pendAlerts' = PendAlertsAfter(res)
                /\ pendDetail' = PendDetailAfter(res)
           ELSE UNCHANGED <<pendAlerts, pendDetail>>
    /\ step' = "explain"
    /\ UNCHANGED <<dbAlerts, alertCall, nAlertCalls, nClears, faultVars, dataVars, restVars,
                   dbSummaries, pendSummaries, tick, queue, metrics, started,
                   cycleBase>>

\* The explanation call with the try/except left out (mutant).
_call_gemini_explainer_uncaught(outcome) ==
    [raised |-> outcome = EXPLAINER_FAILS,
     text |-> IF outcome = EXPLAINER_FAILS THEN "" ELSE outcome]

\* _call_gemini_explainer: None without a credential, resp.text of the
\* answer, None after logging any exception of the call; it never raises.
_call_gemini_explainer(outcome) ==
    [raised |-> FALSE,
     text |-> IF outcome = EXPLAINER_FAILS THEN "" ELSE outcome]

\* _assemble_summary: the 20 newest faults of the device.
TopFaults(view, device_id) ==
    { r \in view : /\ r.device_id = device_id
                   /\ Cardinality({q \in view : q.device_id = device_id
                                                 /\ q.ts > r.ts})
                        < FAULT_HISTORY_LIMIT }

\* _assemble_summary reading the stored rows only, not those the cycle
\* has written (mutant).
_assemble_summary_stored(device_id, m) ==
    [faults |-> { [ts |-> r.ts, fault_type |-> r.fault_type,
                   severity |-> r.severity, details |-> r.details]
                    : r \in TopFaults(dbFaults, device_id) },
     alerts |-> { a.id : a \in { r \in dbAlerts :
                                   r.device_id = device_id /\ ~r.cleared } },
     rtc_reliability_score |-> m.rtc_reliability_score,
     power_rail_risk |-> m.power_rail_risk]

\* _assemble_summary: what the summary row holds of the faults, the
\* uncleared alerts and the metrics.
_assemble_summary(device_id, m) ==
    [faults |-> { [ts |-> r.ts, fault_type |-> r.fault_type,
                   severity |-> r.severity, details |-> r.details]
                    : r \in TopFaults(FaultView, device_id) },
     alerts |-> { a.id : a \in { r \in AlertView :
                                   r.device_id = device_id /\ ~r.cleared } },
     rtc_reliability_score |-> m.rtc_reliability_score,
     power_rail_risk |-> m.power_rail_risk]

\* Summarise without the summary row (mutant).
AddSummary_none(device_id, m, explanation) == pendSummaries

\* explanation_raw = explanation or None; the AISummary row is added to the
\* session ("" stands for None).
AddSummary(device_id, m, explanation) ==
    pendSummaries \cup
        { [id |-> NextId(dbSummaries \cup pendSummaries),
           device_id |-> device_id, generated_at |-> tick,
           summary |-> _assemble_summary(device_id, m),
           explanation_raw |-> explanation,
           explanation_html |-> render_markdown(explanation)] }

\* _assemble_summary and db.session.add(summary_row)
Summarise ==
    /\ step = "summary"
    /\ pendSummaries' = AddSummary(Current, metrics,
                                   _call_gemini_explainer(explainer).text)
    /\ step' = "commit"
    /\ UNCHANGED <<faultVars, alertVars, dataVars, restVars, dbSummaries, tick, queue,
                   metrics, started, cycleBase>>

\* Mutant of SessionAfterRollback: the rollback is missing.
SessionAfterRollback_kept == [faults |-> pendFaults, alerts |-> pendAlerts,
                              detail |-> pendDetail, summaries |-> pendSummaries]

\* db.session.rollback(): nothing stays pending.
SessionAfterRollback == [faults |-> {}, alerts |-> {}, detail |-> <<>>,
                         summaries |-> {}]

\* The for loop goes on with the next device (or ends).
LoopOn ==
    /\ queue' = Tail(queue)
    /\ step' = IF Tail(queue) = <<>> THEN "done" ELSE "signals"
    /\ started' = IF Tail(queue) = <<>> THEN started
                  ELSE started \cup {Head(Tail(queue))}
    /\ metrics' = NoMetrics

\* else: db.session.commit() succeeds.
Commit ==
    /\ step = "commit"
    /\ dbFaults' = dbFaults \cup pendFaults
    /\ dbAlerts' = AlertsCommitted
    /\ dbSummaries' = dbSummaries \cup pendSummaries
    /\ pendFaults' = {} /\ pendAlerts' = {} /\ pendDetail' = <<>>
    /\ pendSummaries' = {}
    /\ LoopOn
    /\ cycleBase' = [faults |-> dbFaults', alerts |-> dbAlerts',
                     summaries |-> dbSummaries']
    /\ UNCHANGED <<faultCalls, nFaultCalls, alertCall, nAlertCalls, nClears,
                   dataVars, restVars, tick>>

\* else: db.session.commit() raises.  The database rolls the transaction
\* back; the exception is outside the try block, leaves run_ai_jobs and is
\* caught by run_analytics_cycle; the session ends with the app context.
CommitFails ==
    /\ step = "commit"
    /\ pendFaults' = {} /\ pendAlerts' = {} /\ pendDetail' = <<>>
    /\ pendSummaries' = {}
    /\ step' = "done"
    /\ metrics' = NoMetrics
    /\ UNCHANGED <<dbFaults, dbAlerts, dbSummaries, faultCalls, nFaultCalls,
                   alertCall, nAlertCalls, nClears, dataVars, restVars, tick, queue, started,
                   cycleBase>>

\* except Exception: a step of the try block raises; logger.exception,
\* db.session.rollback(), next device.
StepFails ==
    /\ step \in CycleSteps
    /\ pendFaults' = SessionAfterRollback.faults
    /\ pendAlerts' = SessionAfterRollback.alerts
    /\ pendDetail' = SessionAfterRollback.detail
    /\ pendSummaries' = SessionAfterRollback.summaries
    /\ LoopOn
    /\ UNCHANGED <<dbFaults, dbAlerts, dbSummaries, faultCalls, nFaultCalls,
                   alertCall, nAlertCalls, nClears, dataVars, restVars, tick, cycleBase>>

\* _generate_recommendations and _call_gemini_explainer: no statement of
\* this step reaches the database; an exception that left the call would
\* be caught by the loop's except like any other.
Explain ==
    /\ step = "explain"
    /\ IF _call_gemini_explainer(explainer).raised
       THEN /\ pendFaults' = SessionAfterRollback.faults
            /\ pendAlerts' = SessionAfterRollback.alerts
            /\ pendDetail' = SessionAfterRollback.detail
            /\ pendSummaries' = SessionAfterRollback.summaries
            /\ LoopOn
       ELSE /\ step' = "summary"
            /\ UNCHANGED <<pendFaults, pendAlerts, pendDetail, pendSummaries,
                           queue, started, metrics>>
    /\ UNCHANGED <<dbFaults, dbAlerts, dbSummaries, faultCalls, nFaultCalls,
                   alertCall, nAlertCalls, nClears, dataVars, restVars, tick, cycleBase>>

NextCycle ==
    \/ StartRun \/ Signals \/ PowerRail \/ Rtc \/ SensorFaults
    \/ AlertPowerRail \/ AlertRtc \/ Explain \/ Summarise
    \/ Commit \/ CommitFails \/ StepFails
    \/ ClearAlertRequest

SpecCycle == InitCycle /\ [][NextCycle]_vars

\* The committed rows the cycles write; the cleared flag of an alert is
\* the operator's to set and is left out.
Durable ==
    [faults |-> dbFaults, summaries |-> dbSummaries,
     alerts |-> {[r EXCEPT !.cleared = FALSE] : r \in dbAlerts}]

NothingPending ==
    pendFaults = {} /\ pendAlerts = {} /\ pendDetail = <<>> /\ pendSummaries = {}

\* Every pending write is one of the cycle of device d.
PendingOnlyOf(d) ==
    /\ \A r \in pendFaults \cup pendAlerts \cup pendSummaries : r.device_id = d
    /\ \A i \in DOMAIN pendDetail : \E r \in dbAlerts : r.id = i /\ r.device_id = d

\* C4: the writes of one device's cycle become durable together in one
\* commit at the end of the cycle.  A step changes committed fault, alert
\* or summary rows only when it is the commit that ends a cycle, and it
\* then publishes everything pending at once, the summary row with the
\* faults and alerts; no other step (no diagnostic module, _record_fault,
\* _raise_alert) commits; pending writes are those of the running cycle
\* only, and a cycle that ends without committing leaves nothing pending,
\* so none of its writes is persisted later.
C4_CycleWritesCommitTogether ==
    [][ /\ (Durable' # Durable) =>
              /\ step = "commit"
              /\ \E sm \in pendSummaries : sm.device_id = Current
              /\ dbFaults' = dbFaults \cup pendFaults
              /\ dbSummaries' = dbSummaries \cup pendSummaries
              /\ dbAlerts' = AlertsCommitted
              /\ NothingPending'
        /\ InCycle => PendingOnlyOf(Current)
        /\ ~InCycle' => NothingPending'
        /\ (InCycle /\ Durable' = Durable /\ (queue' # queue \/ ~InCycle'))
              => NothingPending'
      ]_vars

\* C4 witness: a cycle has committed a fault, an alert and its summary,
\* all of this run and of one device.
C4_Witness ==
    \E sm \in dbSummaries : \E f \in dbFaults : \E a \in dbAlerts :
        /\ sm.generated_at = tick /\ a.created_at = tick
        /\ f.device_id = sm.device_id /\ a.device_id = sm.device_id
        /\ a.id \in sm.summary.alerts
        /\ \E x \in sm.summary.faults : x.ts = f.ts /\ x.fault_type = f.fault_type
        /\ ~(\E old \in dbSummaries : old.generated_at < tick)

\* C5 as claimed: when a device's cycle fails, the rows committed before
\* it stay as they were, and by the end of the run the cycle of every
\* active device has been run.
C5_FailureIsolatedPerDevice ==
    /\ InCycle =>
          /\ cycleBase.faults \subseteq dbFaults
          /\ cycleBase.summaries \subseteq dbSummaries
          /\ {r.id : r \in cycleBase.alerts} \subseteq {r.id : r \in dbAlerts}
    /\ step = "done" => active \subseteq started

\* C8: in a device cycle an alert row is inserted or updated only for
\* power_rail_risk > 0.4 (title "Power rail instability", inserted as
\* critical) and for rtc_reliability_score < 70 (title "RTC instability",
\* inserted as warn); when neither holds the cycle writes no Alert row.
AlertWritten(title) ==
    \/ \E r \in pendAlerts : r.title = title
    \/ \E i \in DOMAIN pendDetail : \E r \in dbAlerts : r.id = i /\ r.title = title

C8_AlertsOnlyForRailAndRtc ==
    InCycle =>
      /\ AlertWritten("Power rail instability") =>
            /\ metrics.power_rail_risk > 400
            /\ step \in {"alert_rtc", "explain", "summary", "commit"}
      /\ AlertWritten("RTC instability") =>
            /\ metrics.rtc_reliability_score < 70
            /\ step \in {"explain", "summary", "commit"}
      /\ \A r \in pendAlerts :
            \/ r.title = "Power rail instability" /\ r.severity = "critical"
            \/ r.title = "RTC instability" /\ r.severity = "warn"
      /\ \A i \in DOMAIN pendDetail : \E r \in dbAlerts :
            r.id = i /\ r.title \in {"Power rail instability", "RTC instability"}
      /\ (step \in {"explain", "summary", "commit"}
            /\ metrics.power_rail_risk <= 400
            /\ metrics.rtc_reliability_score >= 70)
           => (pendAlerts = {} /\ pendDetail = <<>>)

\* C8 witness: a cycle on the thresholds (risk exactly 0.4, score exactly
\* 70) reaches its commit having written no alert, in a run in which an
\* earlier cycle wrote the critical power-rail alert.
C8_Witness ==
    /\ step = "commit"
    /\ metrics.power_rail_risk = 400
    /\ metrics.rtc_reliability_score = 70
    /\ pendAlerts = {} /\ pendDetail = <<>>
    /\ \E a \in dbAlerts : a.title = "Power rail instability" /\ a.created_at = tick

-----------------------------------------------------------------------------
(* Net-Gain Projector, src/analytics.py.  Power is in mW, energy in        *)
(* micro-Wh, a duration in ms, an angle in tenths of a degree; the         *)
(* rounded fields of the result are in mWh (three decimals of a Wh).       *)

MaxMoves == 2              \* movement events logged in one behaviour
MaxHalfHours == 3          \* clock advances in one behaviour

HALF_HOUR_S == HOUR_S \div 2
ANGLE_TOL == 5             \* abs(row.angle_deg - angle) <= 0.5
MOVE_AVG_LIMIT == 10       \* _estimate_move_duration: the last 10 logs
MILLI == 1000

GainDevices == {"dev1"}

\* Python `x or 0`
OrZero(x) == IF x = None THEN 0 ELSE x

DefaultSettings ==
    [min_net_gain_wh |-> 0, max_moves_per_hour |-> 12, motor_power_w |-> 50000]

ensure_settings(device_id) ==
    IF settings[device_id] # <<>> THEN settings[device_id] ELSE DefaultSettings

RECURSIVE AscById(_)
AscById(S) ==
    IF S = {} THEN <<>>
    ELSE LET r == CHOOSE x \in S : \A y \in S : x.id <= y.id
         IN  <<r>> \o AscById(S \ {r})

Reverse(s) == [i \in 1..Len(s) |-> s[Len(s) + 1 - i]]

RECURSIVE SumDurations(_)
SumDurations(logs) ==
    IF logs = <<>> THEN 0
    ELSE Head(logs).move_duration_sec + SumDurations(Tail(logs))

\* order_by(Telemetry.ts.desc()).first()
LatestTelemetry(device_id) ==
    LET rows == {t \in telemetry : t.device_id = device_id}
    IN  IF rows = {} THEN <<>>
        ELSE CHOOSE r \in rows : \A o \in rows : r.ts >= o.ts

_current_angle_power(stat_rows, angle) ==
    LET hits == {i \in DOMAIN stat_rows :
                    Abs(stat_rows[i].angle_deg - angle) <= ANGLE_TOL}
    IN  IF hits = {} THEN None
        ELSE stat_rows[CHOOSE i \in hits : \A j \in hits : i <= j].avg_power

\* max(stats, key=lambda s: s.avg_power): the first row of the largest value
BestStat(stat_rows) ==
    stat_rows[CHOOSE i \in DOMAIN stat_rows : \A j \in DOMAIN stat_rows :
                 \/ stat_rows[i].avg_power > stat_rows[j].avg_power
                 \/ stat_rows[i].avg_power = stat_rows[j].avg_power /\ i <= j]

_estimate_move_duration(device_id) ==
    LET desc == Reverse(AscByTs({m \in movementLogs : m.device_id = device_id}))
        last_logs == SubSeq(desc, 1, Min2(MOVE_AVG_LIMIT, Len(desc)))
        durations == SelectSeq(last_logs, LAMBDA l :
                         l.move_duration_sec # None /\ l.move_duration_sec # 0)
    IN  IF durations = <<>> THEN 0
        ELSE RoundDiv(SumDurations(durations), Len(durations))

_moves_last_hour(device_id) ==
    Cardinality({m \in movementLogs :
                    m.device_id = device_id /\ m.ts >= clock - HOUR_S})

CanMove(max_moves, recent_moves) ==
    (max_moves = 0) \/ (recent_moves < max_moves)

\* The body of net_gain_projection once a latest sample exists: the dict
\* it returns and the unrounded net_gain_wh its decision is taken on.
ProjectionOf(device_id) ==
    LET latest == LatestTelemetry(device_id)
        st == ensure_settings(device_id)
        stats == AscById({r \in slotStats :
                             r.device_id = device_id /\ r.slot = latest.slot})
        has_best == stats # <<>>
        matched == IF has_best THEN _current_angle_power(stats, latest.angle_deg)
                   ELSE None
        current_power == IF matched # None THEN matched ELSE latest.p_w
        expected_gain_wh ==
            IF has_best THEN MILLI * (BestStat(stats).avg_power - current_power)
            ELSE 0
        recommended_angle ==
            IF has_best THEN BestStat(stats).angle_deg ELSE latest.angle_deg
        avg_duration_sec == _estimate_move_duration(device_id)
        motor_power_w == OrZero(st.motor_power_w)
        motor_cost_wh == IF avg_duration_sec # 0
                         THEN RoundDiv(motor_power_w * avg_duration_sec, HOUR_S)
                         ELSE 0
        net_gain_wh == expected_gain_wh - motor_cost_wh
        max_moves == OrZero(st.max_moves_per_hour)
        recent_moves == _moves_last_hour(device_id)
        can_move == CanMove(max_moves, recent_moves)
        decision == IF /\ net_gain_wh >= OrZero(st.min_net_gain_wh)
                       /\ can_move
                       /\ recommended_angle # latest.angle_deg
                    THEN "MOVE" ELSE "HOLD"
    IN  [result |-> [slot |-> latest.slot,
                     current_angle |-> latest.angle_deg,
                     recommended_angle |-> recommended_angle,
                     expected_gain_wh |-> RoundDiv(expected_gain_wh, MILLI),
                     motor_cost_wh |-> RoundDiv(motor_cost_wh, MILLI),
                     net_gain_wh |-> RoundDiv(net_gain_wh, MILLI),
                     decision |-> decision],
         net_gain_wh |-> net_gain_wh]

net_gain_projection(device_id) ==
    IF LatestTelemetry(device_id) = <<>> THEN <<>> ELSE ProjectionOf(device_id)

-----------------------------------------------------------------------------
(* SpecNetGain: the projector is asked for a decision while settings are   *)
(* posted, movement events arrive and time passes.                         *)

GainStatRows ==
    {[id |-> 1, device_id |-> "dev1", slot |-> 600, angle_deg |-> 300,
      sample_count |-> 4, avg_power |-> p, std_power |-> 0] : p \in {6000, 8000}}
    \cup
    {[id |-> 2, device_id |-> "dev1", slot |-> 600, angle_deg |-> 450,
      sample_count |-> 4, avg_power |-> 8000, std_power |-> 0]}

\* one row per (device, slot, angle)
GainStats ==
    {S \in SUBSET GainStatRows : \A a, b \in S : a.id = b.id => a = b}

GainTelemetry ==
    {{}} \cup
    {{[id |-> 1, device_id |-> "dev1", ts |-> -600, slot |-> 600,
       angle_deg |-> 450, p_w |-> 9000],
      [id |-> 2, device_id |-> "dev1", ts |-> 0, slot |-> 600,
       angle_deg |-> a, p_w |-> 6000]} : a \in {300, 304, 450}}

MinGains == {0, 1972222, 2000000}

MoveCaps == {0, 1, 2, 12}

MoveDurations == {None, 2000}

InitNetGain ==
    /\ FaultIdle /\ AlertIdle /\ CycleIdle /\ ScoreIdle
    /\ active = {} /\ events = {} /\ explainer = "" /\ movementLogs = {}
    /\ dailySummaries = {}
    /\ commands = {} /\ handed = <<>>
    /\ telemetry \in GainTelemetry
    /\ slotStats \in GainStats
    /\ settings = [d \in Devices |-> <<>>]
    /\ clock = 0 /\ projection = <<>> /\ passLog = <<>> /\ pendStats = {}

\* GET /analytics/net_gain/<device_id>
Project ==
    \E d \in GainDevices :
        /\ projection' = [device_id |-> d, out |-> net_gain_projection(d)]
        /\ settings' = IF LatestTelemetry(d) = <<>> THEN settings
                       ELSE [settings EXCEPT ![d] = ensure_settings(d)]
        /\ UNCHANGED <<faultVars, alertVars, dataVars, cycleVars, scoreVars,
                       slotStats, pendStats, clock, passLog>>

\* POST /settings/<device_id> with min_net_gain_wh and max_moves_per_hour
PostSettings ==
    \E d \in GainDevices : \E g \in MinGains : \E cap \in MoveCaps :
        /\ settings' = [settings EXCEPT ![d] =
                           [ensure_settings(d) EXCEPT !.min_net_gain_wh = g,
                                                      !.max_moves_per_hour = cap]]
        /\ projection' = <<>>
        /\ UNCHANGED <<faultVars, alertVars, dataVars, cycleVars, scoreVars,
                       slotStats, pendStats, clock, passLog>>

\* POST /event with event_type "move"
LogMovement ==
    \E d \in GainDevices : \E dur \in MoveDurations :
        /\ Cardinality(movementLogs) < MaxMoves
        /\ movementLogs' = movementLogs \cup
               {[id |-> NextId(movementLogs), device_id |-> d, ts |-> clock,
                 move_duration_sec |-> dur]}
        /\ settings' = [settings EXCEPT ![d] = ensure_settings(d)]
        /\ projection' = <<>>
        /\ UNCHANGED <<faultVars, alertVars, cycleVars, scoreVars, active, events,
                       telemetry, explainer, dailySummaries, commands, handed,
                       slotStats, pendStats, clock, passLog>>

GainTimePasses ==
    /\ clock < MaxHalfHours * HALF_HOUR_S
    /\ clock' = clock + HALF_HOUR_S
    /\ projection' = <<>>
    /\ UNCHANGED <<faultVars, alertVars, dataVars, cycleVars, scoreVars,
                   settings, slotStats, pendStats, passLog>>

NextNetGain == Project \/ PostSettings \/ LogMovement \/ GainTimePasses

SpecNetGain == InitNetGain /\ [][NextNetGain]_vars

Projected == projection # <<>> /\ projection.out # <<>>

\* The moves of the trailing hour, counted from the movement log.
MovesInTrailingHour(d) ==
    Cardinality({m \in movementLogs : m.device_id = d /\ m.ts >= clock - 3600})

\* The scenario: best slot power 8 W, current power 6 W, motor draw 50 W,
\* average move duration 2 s, minimum 0, under the cap, another angle.
GainScenario ==
    LET d == projection.device_id
        r == projection.out.result
    IN  /\ \E b \in slotStats : b.angle_deg = r.recommended_angle /\ b.avg_power = 8000
        /\ \E c \in slotStats : c.angle_deg = r.current_angle /\ c.avg_power = 6000
        /\ \A b \in slotStats : b.avg_power <= 8000
        /\ settings[d].motor_power_w = 50000
        /\ settings[d].min_net_gain_wh = 0
        /\ movementLogs # {}
        /\ \A m \in movementLogs : m.move_duration_sec = 2000
        /\ MovesInTrailingHour(d) < settings[d].max_moves_per_hour
        /\ r.recommended_angle # r.current_angle

\* C6: the decision is MOVE exactly when net_gain >= the
\* configured minimum, the moves of the trailing hour are strictly below
\* the configured max_moves_per_hour, and the recommended angle differs
\* from the current angle; HOLD for any other case, whatever the cap.
C6_Original ==
    Projected =>
        LET d == projection.device_id
            r == projection.out.result
        IN  /\ r.decision \in {"MOVE", "HOLD"}
            /\ r.decision = "MOVE" <=>
                 /\ projection.out.net_gain_wh >= settings[d].min_net_gain_wh
                 /\ MovesInTrailingHour(d) < settings[d].max_moves_per_hour
                 /\ r.recommended_angle # r.current_angle

\* What the projector does instead: a max_moves_per_hour of 0 switches the
\* cap off.  The decision is MOVE exactly when net_gain >= the configured
\* minimum, the cap is 0 or the moves of the trailing hour are strictly
\* below it, and the recommended angle differs from the current angle.
\* The scenario (8 W, 6 W, 50 W, 2 s, minimum 0) gives motor cost 0.028 Wh,
\* net gain 1.972 Wh and MOVE.
DecisionAsCoded ==
    Projected =>
        LET d == projection.device_id
            r == projection.out.result
        IN  /\ r.decision \in {"MOVE", "HOLD"}
            /\ r.decision = "MOVE" <=>
                 /\ projection.out.net_gain_wh >= settings[d].min_net_gain_wh
                 /\ \/ settings[d].max_moves_per_hour = 0
                    \/ MovesInTrailingHour(d) < settings[d].max_moves_per_hour
                 /\ r.recommended_angle # r.current_angle
            /\ GainScenario =>
                 /\ r.decision = "MOVE"
                 /\ r.motor_cost_wh = 28
                 /\ r.net_gain_wh = 1972

\* The scenario has been projected with a cap of 2 and one move in the
\* trailing hour.
ScenarioProjected ==
    /\ Projected
    /\ GainScenario
    /\ settings[projection.device_id].max_moves_per_hour = 2
    /\ MovesInTrailingHour(projection.device_id) = 1
    /\ projection.out.result.decision = "MOVE"

-----------------------------------------------------------------------------
(* Score functions, src/ai_engine.py.  A score is in hundredths of a       *)
(* point (round(score, 2)), a voltage in centivolts, a current in mA, a    *)
(* power in W.  The telemetry of the trailing day is given as the number   *)
(* of samples of each kind.                                                *)

PANEL_LIT_CV == 200        \* v_panel > 2.0
ZERO_CURRENT_MA == 50      \* i_panel < 0.05
SPIKE_SIGMAS == 3          \* p > avg_power + 3 * std_power
FULL_SCORE == 10000        \* 100.0
DEFAULT_HEALTH == 5000     \* 50.0, no telemetry in the trailing day
ZERO_WEIGHT == 4000        \* zero_current_ratio * 40.0
SPIKE_WEIGHT == 3000       \* spike_ratio * 30.0
DRIFT_WEIGHT == 50         \* offset_drift * 50.0 (points per volt)
DRIFT_CAP == 3000          \* min(..., 30.0)
LOW_RAIL_WEIGHT == 2000    \* low-voltage ratio * 20.0
RATIO_WEIGHT == 40         \* (1 - ratio) * 40.0
WASTE_CAP == 3000          \* min(wasted_pct * 0.5, 30.0)

SampleKinds == {"ok", "dark", "open", "spike"}

KindRow(k) ==
    CASE k = "ok" ->
           [v_panel |-> 1800, i_panel |-> 1000, p_w |-> 18, acs_offset_v |-> 250,
            v_sys_5v |-> 500]
      [] k = "dark" ->
           [v_panel |-> 0, i_panel |-> 0, p_w |-> 0, acs_offset_v |-> 250,
            v_sys_5v |-> 500]
      [] k = "open" ->
           [v_panel |-> 1800, i_panel |-> 0, p_w |-> 0, acs_offset_v |-> 310,
            v_sys_5v |-> 450]
      [] k = "spike" ->
           [v_panel |-> 1800, i_panel |-> 5000, p_w |-> 90, acs_offset_v |-> 250,
            v_sys_5v |-> 500]

RECURSIVE SumOver(_, _, _)
\* the sum of val[k] over the samples of the kinds K, day[k] samples each
SumOver(K, day, val) ==
    IF K = {} THEN 0
    ELSE LET k == CHOOSE x \in K : TRUE
         IN  day[k] * val[k] + SumOver(K \ {k}, day, val)

One == [k \in SampleKinds |-> 1]

_sensor_health(in) ==
    LET day == in.day
        n == SumOver(SampleKinds, day, One)
        zero_current ==
            SumOver({k \in SampleKinds :
                        /\ KindRow(k).v_panel # 0
                        /\ KindRow(k).v_panel > PANEL_LIT_CV
                        /\ KindRow(k).i_panel < ZERO_CURRENT_MA}, day, One)
        sum_p == SumOver(SampleKinds, day, [k \in SampleKinds |-> KindRow(k).p_w])
        sum_pp == SumOver(SampleKinds, day, [k \in SampleKinds |-> KindRow(k).p_w * KindRow(k).p_w])
        \* n * n * variance; std_power is 0.0 for a single sample
        var_nn == IF n > 1 THEN n * sum_pp - sum_p * sum_p ELSE 0
        IsSpike(p) ==
            /\ var_nn > 0
            /\ n * p - sum_p > 0
            /\ (n * p - sum_p) * (n * p - sum_p)
                  > SPIKE_SIGMAS * SPIKE_SIGMAS * var_nn
        spikes == SumOver({k \in SampleKinds : IsSpike(KindRow(k).p_w)}, day, One)
        sum_off == SumOver(SampleKinds, day, [k \in SampleKinds |-> KindRow(k).acs_offset_v])
        m == n + in.week_only.n
        week_off == sum_off + in.week_only.n * in.week_only.acs_offset_v
        \* abs(mean(offsets) - mean(week_offsets)), over the denominator n * m
        drift_nm == Abs(sum_off * m - week_off * n)
        low_voltage_hits ==
            SumOver({k \in SampleKinds : KindRow(k).v_sys_5v < LOW_RAIL_CV}, day, One)
        raw == FULL_SCORE
                 - RoundDiv(ZERO_WEIGHT * zero_current, n)
                 - RoundDiv(SPIKE_WEIGHT * spikes, n)
                 - Min2(RoundDiv(DRIFT_WEIGHT * drift_nm, n * m), DRIFT_CAP)
                 - RoundDiv(LOW_RAIL_WEIGHT * low_voltage_hits, n)
    IN  IF n = 0 THEN [score |-> DEFAULT_HEALTH, spikes |-> 0]
        ELSE [score |-> _clamp(raw, 0, FULL_SCORE), spikes |-> spikes]

\* _movement_cost: wasted_pct, in hundredths of a percent
WastedPct(wasted, moves) ==
    IF moves = 0 THEN 0 ELSE RoundDiv(FULL_SCORE * wasted, moves)

NoTelemetry(in) == SumOver(SampleKinds, in.day, One) + in.week_only.n = 0

_efficiency_score(in, sensor_health_score) ==
    LET best_power == in.best_power
        \* ratio in ten-thousandths
        ratio == IF best_power > 0 THEN RoundDiv(FULL_SCORE * in.latest_p_w, best_power)
                 ELSE 0
        wasted_pct == WastedPct(in.wasted, in.moves)
        raw == FULL_SCORE
                 - RoundDiv((FULL_SCORE - _clamp(ratio, 0, FULL_SCORE)) * RATIO_WEIGHT, 100)
                 - Min2(RoundDiv(wasted_pct, 2), WASTE_CAP)
                 - RoundDiv((FULL_SCORE - sensor_health_score) * 3, 10)
    IN  IF NoTelemetry(in) THEN 0 ELSE _clamp(raw, 0, FULL_SCORE)

-----------------------------------------------------------------------------
(* SpecScores: the three scores of one device cycle, computed in the       *)
(* order of run_ai_jobs on any of the input histories.                     *)

ScoreDevice == "dev1"

SampleCounts == {0, 1, 10}

RtcCounts == {0, 3, 4, 5, 13, 14}

\* n losses inside the trailing day and one before it
RtcEvents(n) ==
    {[id |-> i, device_id |-> ScoreDevice, ts |-> 30000 + 1000 * i,
      event_type |-> "rtc_lost"] : i \in 1..n}
    \cup {[id |-> 100, device_id |-> ScoreDevice, ts |-> 100,
           event_type |-> "rtc_lost"]}

ScoreInputs ==
    {in \in [day : [SampleKinds -> SampleCounts],
             week_only : {[n |-> 0, acs_offset_v |-> 250],
                          [n |-> 5, acs_offset_v |-> 150]},
             latest_p_w : {0, 9, 40},
             best_power : {0, 18},
             wasted : {0, 3},
             moves : {0, 3}] : in.wasted <= in.moves}

InitScores ==
    /\ FaultIdle /\ AlertIdle /\ CycleIdle /\ AnalyticsIdle
    /\ active = {} /\ movementLogs = {} /\ telemetry = {} /\ explainer = ""
    /\ dailySummaries = {}
    /\ commands = {} /\ handed = <<>>
    /\ events \in {RtcEvents(n) : n \in RtcCounts}
    /\ scoreIn \in ScoreInputs
    /\ scoreOut = <<>>

ScoreSensorHealth ==
    /\ scoreIn # <<>>
    /\ DOMAIN scoreOut = {}
    /\ scoreOut' = ("sensor_health" :> _sensor_health(scoreIn).score)
    /\ UNCHANGED <<faultVars, alertVars, dataVars, cycleVars, analyticsVars, scoreIn>>

ScoreEfficiency ==
    /\ DOMAIN scoreOut = {"sensor_health"}
    /\ scoreOut' = scoreOut @@
          ("efficiency" :> _efficiency_score(scoreIn, scoreOut["sensor_health"]))
    /\ UNCHANGED <<faultVars, alertVars, dataVars, cycleVars, analyticsVars, scoreIn>>

ScoreRtc ==
    /\ DOMAIN scoreOut = {"sensor_health", "efficiency"}
    /\ LET out == _rtc_stability(FaultView, ScoreDevice, CYCLE_NOW)
       IN  /\ pendFaults' = pendFaults \cup out.added
           /\ scoreOut' = scoreOut @@ ("rtc" :> out.rtc_reliability_score)
    /\ UNCHANGED <<dbFaults, faultCalls, nFaultCalls, alertVars, dataVars, cycleVars,
                   analyticsVars, scoreIn>>

NextScores == ScoreSensorHealth \/ ScoreEfficiency \/ ScoreRtc

SpecScores == InitScores /\ [][NextScores]_vars

RtcLostInDay ==
    Cardinality({e \in events : e.event_type = "rtc_lost" /\ e.ts >= CYCLE_NOW - 86400})

\* C7: the sensor health score, the RTC reliability score and the
\* efficiency score each lie in [0, 100] for every input history; with no
\* telemetry in the trailing day the sensor health score is its default 50.
C7_ScoresWithinRange ==
    /\ "sensor_health" \in DOMAIN scoreOut =>
          /\ scoreOut["sensor_health"] >= 0
          /\ scoreOut["sensor_health"] <= 10000
          /\ (\A k \in SampleKinds : scoreIn.day[k] = 0)
                => scoreOut["sensor_health"] = 5000
    /\ "efficiency" \in DOMAIN scoreOut =>
          /\ scoreOut["efficiency"] >= 0
          /\ scoreOut["efficiency"] <= 10000
    /\ "rtc" \in DOMAIN scoreOut =>
          /\ scoreOut["rtc"] >= 0
          /\ scoreOut["rtc"] <= 100

\* C7 witness: all three scores are computed for a device with no
\* telemetry at all and 14 RTC-loss events in the day: 50, 0 and 0.
C7_Witness ==
    /\ DOMAIN scoreOut = {"sensor_health", "efficiency", "rtc"}
    /\ \A k \in SampleKinds : scoreIn.day[k] = 0
    /\ scoreIn.week_only.n = 0
    /\ RtcLostInDay = 14
    /\ scoreOut["sensor_health"] = 5000
    /\ scoreOut["rtc"] = 0

-----------------------------------------------------------------------------
(* Windowed Aggregator, src/analytics.py: generate_slot_statistics.        *)
(* Power is in mW, an angle in tenths of a degree (not negative); None     *)
(* stands for a NULL angle.                                                *)

MaxSamples == 3            \* telemetry rows in one behaviour
MaxSlotSteps == 2          \* clock advances in one behaviour

STAT_DAYS == 7             \* generate_slot_statistics(days=7)
SLOT_STEP_S == 4 * DAY_S   \* the clock advances four days at a time

\* func.round(Telemetry.angle_deg, 0): NULL stays NULL
SqlRound(a) == IF a = None THEN None ELSE ((a + 5) \div 10) * 10

RECURSIVE SumPower(_)
SumPower(S) ==
    IF S = {} THEN 0
    ELSE LET t == CHOOSE x \in S : TRUE IN t.p_w + SumPower(S \ {t})

RECURSIVE SumPowerSq(_)
SumPowerSq(S) ==
    IF S = {} THEN 0
    ELSE LET t == CHOOSE x \in S : TRUE IN t.p_w * t.p_w + SumPowerSq(S \ {t})

RECURSIVE SqrtFrom(_, _)
\* Newton's iteration down to the integer square root of n
SqrtFrom(n, x) ==
    LET y == (x + n \div x) \div 2
    IN  IF y >= x THEN x ELSE SqrtFrom(n, y)

ISqrt(n) == IF n = 0 THEN 0 ELSE SqrtFrom(n, n)

\* count, avg(p_w), sqrt(max(avg(p_w * p_w) - avg(p_w)^2, 0)) of the samples S
PowerStats(S) ==
    LET n == Cardinality(S)
        mean_power == IF n = 0 THEN 0 ELSE RoundDiv(SumPower(S), n)
        avg_power_sq == IF n = 0 THEN 0 ELSE RoundDiv(SumPowerSq(S), n)
        variance == Max2(avg_power_sq - mean_power * mean_power, 0)
    IN  [sample_count |-> n, avg_power |-> mean_power, std_power |-> ISqrt(variance)]

\* .filter(Telemetry.ts >= cutoff)
SamplesSince(cutoff) == {t \in telemetry : t.ts >= cutoff}

GroupKey(t) == <<t.device_id, t.slot, SqlRound(t.angle_deg)>>

\* The upsert that adds the new samples to the stored count (mutant).
UpsertStat_merge(stats, key, st, now) ==
    LET hit == {r \in stats : r.device_id = key[1] /\ r.slot = key[2]
                                 /\ r.angle_deg = key[3]}
        stat == CHOOSE r \in hit : \A o \in hit : r.id <= o.id
    IN  IF hit = {}
        THEN stats \cup {[id |-> NextId(stats), device_id |-> key[1],
                          slot |-> key[2], angle_deg |-> key[3],
                          sample_count |-> st.sample_count,
                          avg_power |-> st.avg_power, std_power |-> st.std_power,
                          last_updated |-> now]}
        ELSE (stats \ {stat}) \cup
                 {[stat EXCEPT !.sample_count = @ + st.sample_count,
                               !.avg_power = st.avg_power,
                               !.std_power = st.std_power,
                               !.last_updated = now]}

\* The loop body without the lookup of the stored row (mutant).
UpsertStat_add(stats, key, st, now) ==
    stats \cup {[id |-> NextId(stats), device_id |-> key[1],
                 slot |-> key[2], angle_deg |-> key[3],
                 sample_count |-> st.sample_count,
                 avg_power |-> st.avg_power, std_power |-> st.std_power,
                 last_updated |-> now]}

\* The body of the loop over the groups: find the row or add one, set it.
UpsertStat(stats, key, st, now) ==
    LET hit == {r \in stats : r.device_id = key[1] /\ r.slot = key[2]
                                 /\ r.angle_deg = key[3]}
        stat == CHOOSE r \in hit : \A o \in hit : r.id <= o.id
    IN  IF hit = {}
        THEN stats \cup {[id |-> NextId(stats), device_id |-> key[1],
                          slot |-> key[2], angle_deg |-> key[3],
                          sample_count |-> st.sample_count,
                          avg_power |-> st.avg_power, std_power |-> st.std_power,
                          last_updated |-> now]}
        ELSE (stats \ {stat}) \cup
                 {[stat EXCEPT !.sample_count = st.sample_count,
                               !.avg_power = st.avg_power,
                               !.std_power = st.std_power,
                               !.last_updated = now]}

RECURSIVE UpsertAll(_, _, _, _)
UpsertAll(stats, keys, rows, now) ==
    IF keys = {} THEN stats
    ELSE LET key == CHOOSE k \in keys : TRUE
             group == {t \in rows : GroupKey(t) = key}
             next == IF key[3] = None THEN stats
                     ELSE UpsertStat(stats, key, PowerStats(group), now)
         IN  UpsertAll(next, keys \ {key}, rows, now)

\* The slot_statistics table after generate_slot_statistics() run at now.
generate_slot_statistics(now) ==
    LET rows == SamplesSince(now - STAT_DAYS * DAY_S)
    IN  UpsertAll(slotStats, {GroupKey(t) : t \in rows}, rows, now)

-----------------------------------------------------------------------------
(* SpecSlot: telemetry arrives, days pass, and the background worker runs  *)
(* the aggregator.                                                         *)

SlotDevices == {"dev1"}

\* what a device reports: 30.0 and 30.4 degrees share a bucket
SlotReadings ==
    {[angle_deg |-> 300, p_w |-> 4000], [angle_deg |-> 304, p_w |-> 8000],
     [angle_deg |-> 450, p_w |-> 8000]}

\* A row whose angle is NULL, kept from a table without the NOT NULL
\* constraint; POST /telemetry cannot store one.
NullAngleSample ==
    [id |-> 1, device_id |-> "dev1", ts |-> 0, slot |-> 600, angle_deg |-> None,
     p_w |-> 4000]

InitSlot ==
    /\ FaultIdle /\ AlertIdle /\ CycleIdle /\ ScoreIdle
    /\ active = {} /\ events = {} /\ movementLogs = {} /\ explainer = ""
    /\ dailySummaries = {}
    /\ commands = {} /\ handed = <<>>
    /\ telemetry \in {{}, {NullAngleSample}}
    /\ settings = [d \in Devices |-> <<>>] /\ projection = <<>>
    /\ slotStats = {} /\ pendStats = {} /\ clock = 0 /\ passLog = <<>>

\* POST /telemetry
IngestTelemetry ==
    \E d \in SlotDevices : \E m \in SlotReadings :
        /\ Cardinality(telemetry) < MaxSamples
        /\ telemetry' = telemetry \cup
               {[id |-> NextId(telemetry), device_id |-> d, ts |-> clock,
                 slot |-> 600, angle_deg |-> m.angle_deg, p_w |-> m.p_w]}
        /\ UNCHANGED <<faultVars, alertVars, cycleVars, scoreVars, analyticsVars,
                       active, movementLogs, events, explainer,
                       dailySummaries, commands, handed>>

\* run_analytics_cycle: generate_slot_statistics()
AggregatorPass ==
    /\ slotStats' = generate_slot_statistics(clock)
    /\ passLog' = SubSeq(passLog, Max2(1, Len(passLog)), Len(passLog)) \o
          <<[clock |-> clock,
             telemetry |-> {t.id : t \in telemetry},
             window |-> {t.id : t \in SamplesSince(clock - STAT_DAYS * DAY_S)},
             stats |-> slotStats']>>
    /\ UNCHANGED <<faultVars, alertVars, dataVars, cycleVars, scoreVars,
                   settings, pendStats, clock, projection>>

SlotTimePasses ==
    /\ clock < MaxSlotSteps * SLOT_STEP_S
    /\ clock' = clock + SLOT_STEP_S
    /\ UNCHANGED <<faultVars, alertVars, dataVars, cycleVars, scoreVars,
                   settings, slotStats, pendStats, projection, passLog>>

NextSlot == IngestTelemetry \/ AggregatorPass \/ SlotTimePasses

SpecSlot == InitSlot /\ [][NextSlot]_vars

LastPass == passLog[Len(passLog)]

\* The last step was an aggregation pass, or nothing changed since.
JustAggregated ==
    /\ passLog # <<>>
    /\ LastPass.clock = clock
    /\ LastPass.telemetry = {t.id : t \in telemetry}

\* The telemetry of a stored row's group inside the trailing seven days.
WindowSamplesOf(r) ==
    {t \in telemetry :
        /\ t.ts >= clock - 7 * 86400
        /\ t.device_id = r.device_id /\ t.slot = r.slot
        /\ t.angle_deg # None
        /\ ((t.angle_deg + 5) \div 10) * 10 = r.angle_deg}

\* C9: after every aggregation pass every stored Slot Statistic row has
\* sample_count >= 0 and its sample_count, avg_power and std_power are the
\* values computed from exactly the telemetry of its group inside the
\* lookback window, also when the group has no sample left in the window.
C9_RowsMatchWindow ==
    JustAggregated =>
        \A r \in slotStats :
            /\ r.sample_count >= 0
            /\ r.sample_count = Cardinality(WindowSamplesOf(r))
            /\ r.avg_power = PowerStats(WindowSamplesOf(r)).avg_power
            /\ r.std_power = PowerStats(WindowSamplesOf(r)).std_power

StatValues(stats) ==
    {[device_id |-> r.device_id, slot |-> r.slot, angle_deg |-> r.angle_deg,
      sample_count |-> r.sample_count, avg_power |-> r.avg_power,
      std_power |-> r.std_power] : r \in stats}

NoNullBucketRows ==
    /\ \A r \in slotStats : r.angle_deg # None
    /\ \A a, b \in slotStats :
          (a.device_id = b.device_id /\ a.slot = b.slot /\ a.angle_deg = b.angle_deg)
             => a = b

\* C10 as claimed: running generate_slot_statistics twice on unchanged
\* telemetry leaves, after the second run, the same set of Slot Statistic
\* rows with the same sample_count, avg_power and std_power as after the
\* first run (last_updated aside); no row with a null angle bucket exists.
C10_Original ==
    /\ (Len(passLog) = 2 /\ passLog[1].telemetry = passLog[2].telemetry) =>
          /\ StatValues(passLog[2].stats) = StatValues(passLog[1].stats)
          /\ {r.id : r \in passLog[2].stats} = {r.id : r \in passLog[1].stats}
    /\ NoNullBucketRows

\* Two passes have run on unchanged telemetry with the same samples inside
\* the lookback window of both.
TwoPassesOnUnchangedData ==
    /\ Len(passLog) = 2
    /\ passLog[1].telemetry = passLog[2].telemetry
    /\ passLog[1].window = passLog[2].window

\* C10: running generate_slot_statistics twice on unchanged telemetry,
\* with the same samples inside the lookback window at both runs, leaves,
\* after the second run, the same set of Slot Statistic rows with the same
\* sample_count, avg_power and std_power as after the first run
\* (last_updated aside); no row with a null angle bucket ever exists.
C10_SecondPassChangesNothing ==
    /\ TwoPassesOnUnchangedData =>
          /\ StatValues(passLog[2].stats) = StatValues(passLog[1].stats)
          /\ {r.id : r \in passLog[2].stats} = {r.id : r \in passLog[1].stats}
    /\ NoNullBucketRows

\* C10 witness: the second of two passes on unchanged data ran four days
\* after the first over two samples of different power in one bucket and a
\* null-angle sample, and stamped the rows anew.
C10_Witness ==
    /\ TwoPassesOnUnchangedData
    /\ JustAggregated
    /\ passLog[1].clock < passLog[2].clock
    /\ NullAngleSample \in telemetry
    /\ NullAngleSample.id \in passLog[2].window
    /\ \E r \in slotStats :
          /\ r.sample_count = 2 /\ r.std_power > 0
          /\ r.last_updated = clock
          /\ \E o \in passLog[1].stats : o.id = r.id /\ o.last_updated < clock

-----------------------------------------------------------------------------
(* The RTC monitor, checked on the runs of SpecScores.                     *)

RtcFaultsRecorded == {f \in FaultView : f.fault_type = "rtc_unstable"}

\* C11: with n rtc_lost events in the trailing 24 h the RTC monitor
\* returns the score max(0, 100 - max(0, n - 3) * 10) and records an
\* rtc_unstable fault of severity warn exactly when n > 3: n = 3 gives
\* 100 and no fault, n = 5 gives 80 and one fault.
C11_RtcScoreAndFault ==
    LET n == RtcLostInDay
        over == IF n > 3 THEN (n - 3) * 10 ELSE 0
    IN  /\ "rtc" \notin DOMAIN scoreOut => RtcFaultsRecorded = {}
        /\ "rtc" \in DOMAIN scoreOut =>
              /\ scoreOut["rtc"] = (IF over > 100 THEN 0 ELSE 100 - over)
              /\ n <= 3 => RtcFaultsRecorded = {}
              /\ n > 3 =>
                    /\ Cardinality(RtcFaultsRecorded) = 1
                    /\ \A f \in RtcFaultsRecorded :
                          f.severity = "warn" /\ f.device_id = ScoreDevice
              /\ n = 3 => scoreOut["rtc"] = 100
              /\ n = 5 => scoreOut["rtc"] = 80

\* C11 witness: the monitor has run on five losses in the day (and one
\* older loss): score 80 and one rtc_unstable fault.
C11_Witness ==
    /\ "rtc" \in DOMAIN scoreOut
    /\ RtcLostInDay = 5
    /\ Cardinality({e \in events : e.event_type = "rtc_lost"}) = 6
    /\ scoreOut["rtc"] = 80
    /\ Cardinality(RtcFaultsRecorded) = 1

-----------------------------------------------------------------------------
(* The forensic modules, checked on the runs of SpecCycle.                 *)

\* The power-rail correlator has run in the current cycle.
RailDone == step \in {"rtc", "sensor_faults", "alert_rail", "alert_rtc",
                      "explain", "summary", "commit"}

MovesInDay(d) == {m \in movementLogs : m.device_id = d /\ m.ts >= CYCLE_NOW - 86400}

ResetsAfter(m) ==
    {e \in events : /\ e.device_id = m.device_id /\ e.event_type = "reset"
                    /\ e.ts >= m.ts /\ e.ts <= m.ts + 10}

LowRailAfter(m) ==
    {t \in telemetry : /\ t.device_id = m.device_id /\ t.v_sys_5v < 470
                       /\ t.ts >= m.ts /\ t.ts <= m.ts + 20}

RailFaultsOf(d) ==
    {f \in FaultView : f.device_id = d /\ f.fault_type = "power_rail_drop"}

\* C12: a device with one Movement Event followed within 10 s by a reset
\* event, and no sample below 4.7 V in the 20 s after the move, has after
\* the correlator ran exactly one power_rail_drop fault; its details have
\* dip_voltage = None and reset_ts = the timestamp of that reset.
C12_OneMoveOneResetOneFault ==
    (RailDone /\ Cardinality(MovesInDay(Current)) = 1) =>
        \A m \in MovesInDay(Current) :
            (ResetsAfter(m) # {} /\ LowRailAfter(m) = {}) =>
                /\ Cardinality(RailFaultsOf(Current)) = 1
                /\ \A f \in RailFaultsOf(Current) :
                      /\ f.details.dip_voltage = None
                      /\ f.details.reset_ts \in {e.ts : e \in ResetsAfter(m)}
                      /\ f.severity = "critical"

\* C12 witness: the correlator has just added the fault for the single
\* move at 10000 with the reset at 10005 (another reset precedes the move).
C12_Witness ==
    /\ step = "rtc"
    /\ \E m \in MovesInDay(Current) :
          /\ MovesInDay(Current) = {m}
          /\ Cardinality(ResetsAfter(m)) = 1
          /\ \E e \in events : e.device_id = Current /\ e.event_type = "reset"
                                 /\ e.ts < m.ts
          /\ LowRailAfter(m) = {}
          /\ \E f \in pendFaults :
                /\ f.fault_type = "power_rail_drop" /\ f.device_id = Current
                /\ f.details.reset_ts = m.ts + 5
                /\ f.details.dip_voltage = None

-----------------------------------------------------------------------------
(* Contamination/shading estimate and Movement Cost Analyzer,              *)
(* src/ai_engine.py.  Power is in mW, energy in micro-Wh, a ratio and a    *)
(* probability in thousandths, a percentage in hundredths.                 *)

RECENT_DAYS == 2           \* recent_start = now - 2 days
BASELINE_DAYS == 9         \* baseline_start = now - 9 days
UNIT == 1000               \* 1.0
DUST_STD_SPAN == 250       \* std_ratio / 0.25
SHADE_STD_SPAN == 300      \* std_ratio / 0.3
COST_HOURS == 6            \* _movement_cost: the trailing 6 hours
BRACKET_S == 600           \* a sample within 10 minutes of the move

\* _slot_power with the end of the window included (mutant).
_slot_power_closed(device_id, from, to) ==
    LET rows == {t \in telemetry : /\ t.device_id = device_id
                                   /\ t.ts >= from /\ t.ts <= to}
    IN  [sl \in {t.slot : t \in rows} |->
            LET g == {t \in rows : t.slot = sl}
            IN  RoundDiv(SumPower(g), Cardinality(g))]

\* _slot_power: slot -> average p_w of the device's samples in [from, to)
_slot_power(device_id, from, to) ==
    LET rows == {t \in telemetry : /\ t.device_id = device_id
                                   /\ t.ts >= from /\ t.ts < to}
    IN  [sl \in {t.slot : t \in rows} |->
            LET g == {t \in rows : t.slot = sl}
            IN  RoundDiv(SumPower(g), Cardinality(g))]

RECURSIVE SumOf(_, _)
\* the sum of f over the finite set D of its arguments
SumOf(f, D) ==
    IF D = {} THEN 0
    ELSE LET x == CHOOSE y \in D : TRUE IN f[x] + SumOf(f, D \ {x})

_dust_shading(device_id, now) ==
    LET baseline == _slot_power(device_id, now - BASELINE_DAYS * DAY_S,
                                now - RECENT_DAYS * DAY_S)
        recent == _slot_power(device_id, now - RECENT_DAYS * DAY_S, now)
        slots == {sl \in DOMAIN baseline : baseline[sl] > 0}
        ratios == [sl \in slots |->
                      RoundDiv(UNIT * (IF sl \in DOMAIN recent THEN recent[sl] ELSE 0),
                               baseline[sl])]
        k == Cardinality(slots)
        mean_ratio == RoundDiv(SumOf(ratios, slots), k)
        sq == [sl \in slots |-> (ratios[sl] - mean_ratio) * (ratios[sl] - mean_ratio)]
        std_ratio == IF k > 1 THEN ISqrt(RoundDiv(SumOf(sq, slots), k)) ELSE 0
        dust == RoundDiv(
                  _clamp(RoundDiv((UNIT - mean_ratio) * 12, 10), 0, UNIT)
                  * _clamp(UNIT - RoundDiv(std_ratio * UNIT, DUST_STD_SPAN), 0, UNIT),
                  UNIT)
        shading == RoundDiv(
                  _clamp(RoundDiv(std_ratio * UNIT, SHADE_STD_SPAN), 0, UNIT)
                  * _clamp(UNIT - mean_ratio, 0, UNIT),
                  UNIT)
    IN  IF slots = {}
        THEN [dust_probability |-> 0, shading_probability |-> 0]
        ELSE [dust_probability |-> dust, shading_probability |-> shading,
              mean_ratio |-> mean_ratio, std_ratio |-> std_ratio]

\* The `before` query taking any earlier sample (mutant).
SampleBefore_any(device_id, log) ==
    LET rows == {t \in telemetry : t.device_id = device_id /\ t.ts <= log.ts}
    IN  IF rows = {} THEN <<>>
        ELSE CHOOSE t \in rows : \A o \in rows : t.ts >= o.ts

\* The newest sample in the 10 minutes up to the move, <<>> for None.
SampleBefore(device_id, log) ==
    LET rows == {t \in telemetry : /\ t.device_id = device_id
                                   /\ t.ts <= log.ts
                                   /\ t.ts >= log.ts - BRACKET_S}
    IN  IF rows = {} THEN <<>>
        ELSE CHOOSE t \in rows : \A o \in rows : t.ts >= o.ts

\* The oldest sample in the 10 minutes from the move on, <<>> for None.
SampleAfter(device_id, log) ==
    LET rows == {t \in telemetry : /\ t.device_id = device_id
                                   /\ t.ts >= log.ts
                                   /\ t.ts <= log.ts + BRACKET_S}
    IN  IF rows = {} THEN <<>>
        ELSE CHOOSE t \in rows : \A o \in rows : t.ts <= o.ts

\* net_gain of one bracketed move
MoveNetGain(log, before, after) ==
    LET interval_s == Max2(after.ts - before.ts, 1)
        energy_gain == RoundDiv((after.p_w - before.p_w) * interval_s * 10, 36)
    IN  energy_gain - OrZero(log.energy_cost_wh)

\* _movement_cost; gains is its local list, one entry per move that has
\* both samples.
_movement_cost(device_id, now) ==
    LET logs == {m \in movementLogs :
                    m.device_id = device_id /\ m.ts >= now - COST_HOURS * HOUR_S}
        bracketed == {m \in logs : /\ SampleBefore(device_id, m) # <<>>
                                   /\ SampleAfter(device_id, m) # <<>>}
        gains == [m \in {b.id : b \in bracketed} |->
                    LET log == CHOOSE b \in bracketed : b.id = m
                    IN  MoveNetGain(log, SampleBefore(device_id, log),
                                    SampleAfter(device_id, log))]
        wasted == Cardinality({m \in DOMAIN gains : gains[m] <= 0})
    IN  IF logs = {}
        THEN [moves |-> 0, wasted_pct |-> 0, avg_gain |-> 0, gains |-> <<>>]
        ELSE [moves |-> Cardinality(logs),
              wasted_pct |-> RoundDiv(FULL_SCORE * wasted, Cardinality(logs)),
              avg_gain |-> IF DOMAIN gains = {} THEN 0
                           ELSE RoundDiv(SumOf(gains, DOMAIN gains),
                                         Cardinality(DOMAIN gains)),
              gains |-> gains]

(* SpecSignals: _dust_shading and then _movement_cost, in the order of     *)
(* run_ai_jobs, on any of the input histories below.                       *)

SignalDevice == "dev1"

\* samples of one slot at the given powers, i seconds apart from ts on
SlotSamples(base_id, slot, ts, powers) ==
    {[id |-> base_id + i, device_id |-> SignalDevice, ts |-> ts + i,
      slot |-> slot, p_w |-> powers[i]] : i \in 1..Len(powers)}

\* Baseline samples lie 5 days back, recent ones 1 day back; one optional
\* sample lies exactly on the border of the two windows.
DustHistories ==
    {SlotSamples(100, 540, CYCLE_NOW - 5 * DAY_S, b1)
       \cup SlotSamples(200, 540, CYCLE_NOW - DAY_S, r1)
       \cup SlotSamples(300, 600, CYCLE_NOW - 5 * DAY_S, b2)
       \cup SlotSamples(400, 600, CYCLE_NOW - DAY_S, r2)
       \cup edge :
         b1 \in {<<>>, <<0>>, <<4000>>, <<4000, 8000>>},
         r1 \in {<<>>, <<4000>>, <<6000>>, <<2000>>},
         b2 \in {<<>>, <<8000>>},
         r2 \in {<<>>, <<8000>>, <<4000>>},
         edge \in {{}, SlotSamples(500, 540, CYCLE_NOW - RECENT_DAYS * DAY_S - 1,
                                   <<8000>>)}}

\* Moves one hour, two hours and eight hours back.
SignalMoves ==
    {[id |-> 1, device_id |-> SignalDevice, ts |-> CYCLE_NOW - HOUR_S,
      energy_cost_wh |-> 30000],
     [id |-> 2, device_id |-> SignalDevice, ts |-> CYCLE_NOW - 2 * HOUR_S,
      energy_cost_wh |-> None],
     [id |-> 3, device_id |-> SignalDevice, ts |-> CYCLE_NOW - 8 * HOUR_S,
      energy_cost_wh |-> None]}

\* Samples 20 and 5 minutes before the first move, 5 minutes after it, and
\* one at the very second of the second move.
MoveSamples ==
    {[id |-> 601, device_id |-> SignalDevice, ts |-> CYCLE_NOW - HOUR_S - 2 * BRACKET_S,
      slot |-> 660, p_w |-> 4000],
     [id |-> 602, device_id |-> SignalDevice, ts |-> CYCLE_NOW - HOUR_S - 300,
      slot |-> 660, p_w |-> 4000],
     [id |-> 603, device_id |-> SignalDevice, ts |-> CYCLE_NOW - HOUR_S + 300,
      slot |-> 660, p_w |-> 8000],
     [id |-> 604, device_id |-> SignalDevice, ts |-> CYCLE_NOW - 2 * HOUR_S,
      slot |-> 660, p_w |-> 6000]}

InitSignals ==
    /\ FaultIdle /\ AlertIdle /\ CycleIdle /\ AnalyticsIdle
    /\ active = {} /\ events = {} /\ explainer = "" /\ dailySummaries = {}
    /\ commands = {} /\ handed = <<>>
    /\ movementLogs \in SUBSET SignalMoves
    /\ \E dust \in DustHistories : \E near \in SUBSET MoveSamples :
          telemetry = dust \cup near
    /\ scoreIn = <<>>
    /\ scoreOut = <<>>

SignalDustShading ==
    /\ DOMAIN scoreOut = {}
    /\ scoreOut' = ("dust" :> _dust_shading(SignalDevice, CYCLE_NOW))
    /\ UNCHANGED <<faultVars, alertVars, dataVars, cycleVars, analyticsVars, scoreIn>>

SignalMovementCost ==
    /\ DOMAIN scoreOut = {"dust"}
    /\ scoreOut' = scoreOut @@
          ("movement" :> _movement_cost(SignalDevice, CYCLE_NOW))
    /\ UNCHANGED <<faultVars, alertVars, dataVars, cycleVars, analyticsVars, scoreIn>>

NextSignals == SignalDustShading \/ SignalMovementCost

SpecSignals == InitSignals /\ [][NextSignals]_vars

(* ----- the Movement Cost Analyzer on the runs of SpecSignals ----------- *)

CostDone == "movement" \in DOMAIN scoreOut

RecentMoves ==
    {m \in movementLogs : m.ts >= CYCLE_NOW - COST_HOURS * HOUR_S}

HasSampleBefore(m) ==
    \E t \in telemetry : t.ts <= m.ts /\ m.ts - t.ts <= BRACKET_S

HasSampleAfter(m) ==
    \E t \in telemetry : t.ts >= m.ts /\ t.ts - m.ts <= BRACKET_S

Unbracketed == {m \in RecentMoves : ~HasSampleBefore(m) \/ ~HasSampleAfter(m)}

\* C13: a move of the trailing six hours that lacks a sample in the ten
\* minutes before it or in the ten minutes after it has no entry among the
\* gains, so it is neither averaged nor counted as wasted, and it is still
\* counted in the number of moves, the denominator of the wasted percentage.
C13_UnbracketedMoveSkippedButCounted ==
    CostDone =>
        LET r == scoreOut["movement"]
            wasted == Cardinality({m \in DOMAIN r.gains : r.gains[m] <= 0})
        IN  /\ r.moves = Cardinality(RecentMoves)
            /\ \A m \in Unbracketed : m.id \notin DOMAIN r.gains
            /\ DOMAIN r.gains = {m.id : m \in RecentMoves \ Unbracketed}
            /\ RecentMoves # {} =>
                  r.wasted_pct = RoundDiv(FULL_SCORE * wasted, Cardinality(RecentMoves))

\* A run with one bracketed wasted move and one unbracketed move: half of
\* the moves are wasted, not all of them.
C13_Witness ==
    /\ CostDone
    /\ Unbracketed # {}
    /\ scoreOut["movement"].moves = 2
    /\ Cardinality(DOMAIN scoreOut["movement"].gains) = 1
    /\ scoreOut["movement"].wasted_pct = FULL_SCORE \div 2

(* ----- the contamination/shading estimate on the runs of SpecSignals --- *)

DustDone == "dust" \in DOMAIN scoreOut

BaselineRows(sl) ==
    {t \in telemetry : /\ t.slot = sl
                       /\ t.ts >= CYCLE_NOW - BASELINE_DAYS * DAY_S
                       /\ t.ts < CYCLE_NOW - RECENT_DAYS * DAY_S}

RecentRows(sl) ==
    {t \in telemetry : /\ t.slot = sl
                       /\ t.ts >= CYCLE_NOW - RECENT_DAYS * DAY_S
                       /\ t.ts < CYCLE_NOW}

AvgPower(rows) == RoundDiv(SumPower(rows), Cardinality(rows))

AllSlots == {t.slot : t \in telemetry}

NoPositiveBaseline ==
    \A sl \in AllSlots :
        BaselineRows(sl) = {} \/ AvgPower(BaselineRows(sl)) <= 0

FlatHistory ==
    \A sl \in AllSlots :
        /\ BaselineRows(sl) # {}
        /\ RecentRows(sl) # {}
        /\ AvgPower(RecentRows(sl)) = AvgPower(BaselineRows(sl))

\* C14: dust_probability and shading_probability lie in [0, 1]; both are 0
\* when no slot has a baseline average above 0, and both are 0 when every
\* slot's recent average equals its baseline average.
C14_DustShadingRangeAndZero ==
    DustDone =>
        LET r == scoreOut["dust"]
        IN  /\ r.dust_probability \in 0..UNIT
            /\ r.shading_probability \in 0..UNIT
            /\ (NoPositiveBaseline \/ FlatHistory) =>
                  r.dust_probability = 0 /\ r.shading_probability = 0

\* A flat history over two slots with positive baselines, one of them with
\* a sample on the border of the two windows.
C14_Witness ==
    /\ DustDone
    /\ FlatHistory
    /\ ~NoPositiveBaseline
    /\ Cardinality(AllSlots) = 2
    /\ \E t \in telemetry : t.ts = CYCLE_NOW - RECENT_DAYS * DAY_S
    /\ scoreOut["dust"].dust_probability = 0
    /\ scoreOut["dust"].shading_probability = 0

-----------------------------------------------------------------------------
(* The summary rows of the orchestrator, checked on the runs of SpecCycle. *)

\* The explanation call has no text to give.
ExplanationMissing == explainer \in {"", EXPLAINER_FAILS}

\* C15: without a credential, with an exception or with an empty answer of
\* the explanation call the cycle goes on from the call to its summary with
\* everything it has written so far, the summary row it adds has an empty
\* explanation, and the commit stores that row together with the cycle's
\* faults and alerts.
C15_ExplainerNeverFailsCycle ==
    [][ExplanationMissing =>
          /\ (step = "explain" /\ step' # "explain") =>
                /\ step' = "summary"
                /\ queue' = queue
                /\ <<pendFaults, pendAlerts, pendDetail>>'
                      = <<pendFaults, pendAlerts, pendDetail>>
          /\ (step = "summary" /\ step' = "commit") =>
                \E r \in pendSummaries' \ pendSummaries :
                    /\ r.device_id = Current
                    /\ r.explanation_raw = ""
                    /\ r.explanation_html = ""
          /\ (step = "commit" /\ dbSummaries' # dbSummaries) =>
                /\ pendSummaries \subseteq dbSummaries'
                /\ pendFaults \subseteq dbFaults'
                /\ dbAlerts' = AlertsCommitted]_vars

\* The call raised, and a cycle has stored a summary without explanation
\* next to a fault and an alert of the same device.
C15_Witness ==
    /\ explainer = EXPLAINER_FAILS
    /\ \E r \in dbSummaries :
          /\ r.explanation_raw = ""
          /\ \E f \in dbFaults : f.device_id = r.device_id
          /\ \E a \in dbAlerts : a.device_id = r.device_id

\* The summary rows of device d written in run t.
SummariesOf(d, t) == {r \in dbSummaries : r.device_id = d /\ r.generated_at = t}

\* The step ends the current device's cycle with a successful commit.
CycleSucceeds == step = "commit" /\ queue' # queue

\* The step ends the current device's cycle by an exception.
CycleFails ==
    \/ step \in CycleSteps \cup {"explain"} /\ queue' # queue
    \/ step = "commit" /\ step' = "done" /\ queue' = queue

\* C16: a cycle that succeeds stores exactly one summary row, of its device
\* and its run; a cycle that fails stores none and leaves the stored alerts
\* and the device's stored faults as they were before the run; no device
\* has two rows of one run, and no step changes or removes a stored row.
C16_OneSummaryPerSuccessfulCycle ==
    [][/\ dbSummaries \subseteq dbSummaries'
       /\ \A d \in Devices : Cardinality(SummariesOf(d, tick)) <= 1
       /\ CycleSucceeds =>
             /\ SummariesOf(Current, tick) = {}
             /\ \E r \in dbSummaries' \ dbSummaries :
                   /\ dbSummaries' = dbSummaries \cup {r}
                   /\ r.device_id = Current
                   /\ r.generated_at = tick
       /\ CycleFails =>
             /\ dbSummaries' = dbSummaries
             /\ dbAlerts' = dbAlerts
             /\ {f \in dbFaults' : f.device_id = Current}
                   = {f \in cycleBase.faults : f.device_id = Current}
       /\ ~(CycleSucceeds \/ CycleFails) => dbSummaries' = dbSummaries]_vars

\* The second run has ended: one device has a row of each run, the other
\* device's cycle of the second run failed after it had written a fault.
C16_Witness ==
    /\ step = "done" /\ tick = 2 /\ started = Devices
    /\ \E d \in Devices :
          /\ SummariesOf(d, 1) # {} /\ SummariesOf(d, 2) # {}
          /\ \E e \in Devices \ {d} :
                /\ SummariesOf(e, 2) = {}
                /\ SummariesOf(e, 1) # {}
                /\ \E f \in dbFaults : f.device_id = e

-----------------------------------------------------------------------------
(* The pattern detector and the correlator as claimed, on SpecCycle.       *)

\* The Sensor-Fault Pattern Detector has run in the current cycle.
SensorDone == step \in {"alert_rail", "alert_rtc", "explain", "summary", "commit"}

SensorEvents(d) ==
    {e \in events : /\ e.device_id = d /\ e.ts >= CYCLE_NOW - DAY_S
                    /\ Lower(e.event_type) = "sensor_fault"}

\* The other sensor_fault events in the hour that ends at ev.
OthersInHourBefore(ev) ==
    {o \in SensorEvents(ev.device_id) \ {ev} :
        ev.ts - o.ts >= 0 /\ ev.ts - o.ts <= HOUR_S}

Clustered(d) == {ev \in SensorEvents(d) : Cardinality(OthersInHourBefore(ev)) >= 2}

WiringFaultsOf(d) ==
    {f \in FaultView : f.device_id = d /\ f.fault_type = "sensor_wiring_instability"}

\* C19 as claimed: after the detector ran, the device has a
\* sensor_wiring_instability fault exactly when some sensor_fault event of
\* the trailing day has at least 2 other such events in the hour ending at
\* it; there is at most one such fault, of severity warn, at the first such
\* event.
C19_WiringFaultIffTwoOthers ==
    SensorDone =>
        /\ WiringFaultsOf(Current) # {} <=> Clustered(Current) # {}
        /\ Cardinality(WiringFaultsOf(Current)) <= 1
        /\ \A f \in WiringFaultsOf(Current) :
              /\ f.severity = "warn"
              /\ \E ev \in Clustered(Current) :
                    /\ f.ts = ev.ts
                    /\ \A o \in Clustered(Current) : ev.ts <= o.ts

\* The moves of the trailing day that had a hit.
MovesWithHit(d) ==
    {m \in MovesInDay(d) : ResetsAfter(m) # {} \/ LowRailAfter(m) # {}}

\* C20 as claimed: after the correlator ran, every move of the trailing day
\* that had a hit has a critical power_rail_drop fault whose
\* correlated_move_id is that move's id.
C20_EveryHitHasItsFault ==
    RailDone =>
        \A m \in MovesWithHit(Current) :
            \E f \in RailFaultsOf(Current) :
                f.severity = "critical" /\ f.correlated_move_id = m.id

-----------------------------------------------------------------------------
(* SpecTick: the background worker of src/app.py.  Every 900 s it opens an *)
(* application context (one database session) and runs                    *)
(* _process_cleaning_improvements and run_analytics_cycle in it; each      *)
(* stage returns or raises.  A device cycle is one step here, its inside   *)
(* is SpecCycle.                                                           *)

SLEEP_S == 900             \* time.sleep(900)

\* cycleVars without step
cycleVars_but_step == <<dbSummaries, pendSummaries, tick, queue, metrics, started,
                        cycleBase>>

SlotReadingNo(i) ==
    CHOOSE m \in SlotReadings :
        Cardinality({o \in SlotReadings : o.angle_deg < m.angle_deg}) = i - 1

TickStages == {"cleaning", "slot_stats", "daily"}

\* Samples stored before the worker's first tick.
TickSamples ==
    {[id |-> i, device_id |-> "dev1", ts |-> 0, slot |-> 600,
      angle_deg |-> SlotReadingNo(i).angle_deg, p_w |-> SlotReadingNo(i).p_w]
        : i \in 1..3}

\* The slot_statistics table as the session sees it.
StatsView ==
    {r \in slotStats : \A p \in pendStats : p.id # r.id} \cup pendStats

\* generate_slot_statistics without its commit (mutant).
RefreshOutcome_nocommit(table) ==
    [committed |-> slotStats, pending |-> table \ slotStats]

\* generate_slot_statistics ends with db.session.commit(): the table it
\* wrote is stored and nothing of it stays pending.
RefreshOutcome(table) == [committed |-> table, pending |-> {}]

\* The worker thread ends on an exception (mutant).
AfterException_stops == "stopped"

\* except Exception: app.logger.exception(...); the loop goes on to
\* time.sleep(900).
AfterException == "sleep"

InitTick ==
    /\ FaultIdle /\ AlertIdle /\ ScoreIdle
    /\ active \in (SUBSET Devices) \ {{}}
    /\ telemetry \in SUBSET TickSamples
    /\ movementLogs = {} /\ events = {} /\ explainer = ""
    /\ dailySummaries = {}
    /\ commands = {} /\ handed = <<>>
    /\ settings = [d \in Devices |-> <<>>] /\ projection = <<>>
    /\ slotStats = {} /\ pendStats = {} /\ clock = 0 /\ passLog = <<>>
    /\ dbSummaries = {} /\ pendSummaries = {} /\ tick = 0 /\ queue = <<>>
    /\ step = "sleep" /\ metrics = NoMetrics /\ started = {} /\ cycleBase = <<>>

\* time.sleep(900) returns; with app.app_context(): a new session.
StartTick ==
    /\ step = "sleep"
    /\ tick < MaxTicks
    /\ tick' = tick + 1
    /\ clock' = clock + SLEEP_S
    /\ step' = "cleaning"
    /\ started' = {}
    /\ UNCHANGED <<faultVars, alertVars, dataVars, scoreVars, settings, slotStats,
                   pendStats, projection, passLog, dbSummaries, pendSummaries,
                   queue, metrics, cycleBase>>

\* _process_cleaning_improvements returns (CleaningLog rows are not part
\* of the model); its commit stores what the session holds.
ProcessCleaning ==
    /\ step = "cleaning"
    /\ slotStats' = StatsView /\ pendStats' = {}
    /\ step' = "slot_stats"
    /\ UNCHANGED <<faultVars, alertVars, dataVars, scoreVars, settings, clock,
                   projection, passLog, cycleVars_but_step>>

\* run_analytics_cycle: generate_slot_statistics() returns
RefreshSlotStats ==
    /\ step = "slot_stats"
    /\ LET out == RefreshOutcome(generate_slot_statistics(clock))
       IN  /\ slotStats' = out.committed
           /\ pendStats' = out.pending
    /\ passLog' = <<[clock |-> clock,
                     telemetry |-> {t.id : t \in telemetry},
                     window |-> {t.id : t \in SamplesSince(clock - STAT_DAYS * DAY_S)},
                     stats |-> generate_slot_statistics(clock)]>>
    /\ step' = "daily"
    /\ UNCHANGED <<faultVars, alertVars, dataVars, scoreVars, settings, clock,
                   projection, cycleVars_but_step>>

\* generate_daily_summaries() returns (DailySummary rows are not part of
\* the model), its commit stores what the session holds; run_ai_jobs lists
\* the active devices.
DailySummaries ==
    /\ step = "daily"
    /\ slotStats' = StatsView /\ pendStats' = {}
    /\ step' = "ai_jobs"
    /\ queue' = ActiveDevices
    /\ UNCHANGED <<faultVars, alertVars, dataVars, scoreVars, settings, clock,
                   projection, passLog, dbSummaries, pendSummaries, tick, metrics,
                   started, cycleBase>>

\* A stage before run_ai_jobs raises: the exception leaves
\* run_analytics_cycle and the application context (the session is removed
\* with what it held) and is caught in worker().
StageFails ==
    /\ step \in TickStages
    /\ pendStats' = {}
    /\ step' = AfterException
    /\ UNCHANGED <<faultVars, alertVars, dataVars, scoreVars, settings, slotStats,
                   clock, projection, passLog, cycleVars_but_step>>

\* One pass of the loop of run_ai_jobs that ends in its commit.
DeviceCycle ==
    /\ step = "ai_jobs" /\ queue # <<>>
    /\ dbSummaries' = dbSummaries \cup
           {[id |-> NextId(dbSummaries), device_id |-> Head(queue),
             generated_at |-> tick]}
    /\ slotStats' = StatsView /\ pendStats' = {}
    /\ queue' = Tail(queue)
    /\ started' = started \cup {Head(queue)}
    /\ UNCHANGED <<faultVars, alertVars, dataVars, scoreVars, settings, clock,
                   projection, passLog, pendSummaries, tick, step, metrics, cycleBase>>

\* One pass of the loop that raises: db.session.rollback().
DeviceCycleFails ==
    /\ step = "ai_jobs" /\ queue # <<>>
    /\ pendStats' = {}
    /\ queue' = Tail(queue)
    /\ started' = started \cup {Head(queue)}
    /\ UNCHANGED <<faultVars, alertVars, dataVars, scoreVars, settings, slotStats,
                   clock, projection, passLog, dbSummaries, pendSummaries, tick,
                   step, metrics, cycleBase>>

\* The commit of a pass raises: run_analytics_cycle catches the exception
\* ("AI jobs failed; continuing") and returns.
DeviceCommitFails ==
    /\ step = "ai_jobs" /\ queue # <<>>
    /\ pendStats' = {}
    /\ queue' = <<>>
    /\ started' = started \cup {Head(queue)}
    /\ step' = "sleep"
    /\ UNCHANGED <<faultVars, alertVars, dataVars, scoreVars, settings, slotStats,
                   clock, projection, passLog, dbSummaries, pendSummaries, tick,
                   metrics, cycleBase>>

\* run_ai_jobs and run_analytics_cycle return, the context is left.
EndTick ==
    /\ step = "ai_jobs" /\ queue = <<>>
    /\ pendStats' = {}
    /\ step' = "sleep"
    /\ UNCHANGED <<faultVars, alertVars, dataVars, scoreVars, settings, slotStats,
                   clock, projection, passLog, dbSummaries, pendSummaries, tick,
                   queue, metrics, started, cycleBase>>

NextTick ==
    \/ StartTick \/ StageFails \/ ProcessCleaning \/ RefreshSlotStats
    \/ DailySummaries \/ DeviceCycle \/ DeviceCycleFails \/ DeviceCommitFails
    \/ EndTick

SpecTick == InitTick /\ [][NextTick]_vars

\* The worker thread is scheduled, and every stage returns or raises.
SpecTickLive == SpecTick /\ WF_vars(NextTick)

(* ----- the refresh and the driver on the runs of SpecTick --------------- *)

\* C17: when the refresh returns, the rows it wrote are stored and none of
\* them is pending; while the device cycles of the tick run, whatever their
\* outcome, the stored rows are the ones the refresh wrote.
C17_RefreshCommittedBeforeCycles ==
    [][/\ (step = "slot_stats" /\ step' = "daily") =>
             /\ pendStats' = {}
             /\ slotStats' = generate_slot_statistics(clock)
       /\ step \in {"daily", "ai_jobs"} =>
             /\ slotStats = LastPass.stats
             /\ slotStats' = slotStats
       /\ step = "ai_jobs" => pendStats = {}]_vars

\* The cycle of dev1 was rolled back, the cycle of dev2 is about to start,
\* and the three rows of the refresh of this tick are stored.
C17_Witness ==
    /\ step = "ai_jobs" /\ queue = <<"dev2">> /\ active = Devices
    /\ SummariesOf("dev1", tick) = {}
    /\ LastPass.clock = clock
    /\ slotStats = LastPass.stats
    /\ Cardinality(slotStats) = 2
    /\ \A r \in slotStats : r.last_updated = clock

\* C18: whatever happens in a tick, the worker starts the next one (up to
\* the number of ticks the model follows).
C18_DriverStartsNextTick ==
    \A n \in 0..(MaxTicks - 1) : (tick = n) ~> (tick = n + 1)

\* The second tick has started although the first one failed before its
\* refresh returned.
C18_Witness ==
    /\ tick = 2 /\ step = "cleaning"
    /\ passLog = <<>>

-----------------------------------------------------------------------------
(* The projector as a read-only function, on the runs of SpecNetGain.      *)

\* C21 as claimed: a call of net_gain_projection changes no stored row,
\* the Device Settings included, and a call that follows another with no
\* write in between returns the same result.
C21_ProjectionChangesNothing ==
    [][projection' # <<>> =>
          /\ settings' = settings
          /\ <<telemetry, movementLogs, slotStats>>'
                = <<telemetry, movementLogs, slotStats>>
          /\ projection # <<>> => projection' = projection]_vars

-----------------------------------------------------------------------------
(* The order of the writes and the summary in a cycle, on SpecCycle.       *)

\* The summary row the current cycle has added.
CycleSummary == CHOOSE r \in pendSummaries : r.device_id = Current

FaultEntry(f) == [ts |-> f.ts, fault_type |-> f.fault_type,
                  severity |-> f.severity, details |-> f.details]

\* C22: once the summary is assembled no fault and no alert is written in
\* the cycle any more, and the summary holds every fault the cycle
\* recorded that is among the device's 20 newest, every alert the cycle
\* inserted, and every uncleared alert whose detail it updated.
C22_SummaryHoldsCycleWrites ==
    [][/\ (step = "summary" /\ step' = "commit") =>
             /\ <<pendFaults, pendAlerts, pendDetail>>'
                   = <<pendFaults, pendAlerts, pendDetail>>
             /\ \E r \in pendSummaries' :
                   /\ pendSummaries' = {r}
                   /\ \A f \in pendFaults :
                         f \in TopFaults(FaultView, Current)
                            => FaultEntry(f) \in r.summary.faults
                   /\ \A a \in pendAlerts : a.id \in r.summary.alerts
                   /\ \A i \in DOMAIN pendDetail :
                         (\E a \in dbAlerts : a.id = i /\ ~a.cleared)
                            => i \in r.summary.alerts
       /\ (step = "commit" /\ step' = "commit") =>
             <<pendFaults, pendAlerts, pendDetail, pendSummaries>>'
                = <<pendFaults, pendAlerts, pendDetail, pendSummaries>>]_vars

\* A summary that holds a fault and an alert written in its own cycle.
C22_Witness ==
    /\ step = "commit"
    /\ \E f \in pendFaults : FaultEntry(f) \in CycleSummary.summary.faults
    /\ \E a \in pendAlerts : a.id \in CycleSummary.summary.alerts

-----------------------------------------------------------------------------
(* Recommendations, src/ai_engine.py _generate_recommendations.            *)
(* Probabilities and the risk are in thousandths, the sensor health and    *)
(* efficiency scores in hundredths of a point, the RTC score in points.    *)

REC_DUST == 600            \* dust_probability > 0.6
REC_SHADING == 600         \* shading_probability > 0.6
REC_RAIL == 400            \* power_rail_risk > 0.4
REC_SENSOR == 7000         \* sensor_health score < 70
REC_EFFICIENCY == 6000     \* efficiency_score < 60
REC_RTC == 80              \* rtc_reliability_score < 80

MSG_DUST == "Clean panel to remove dust accumulation"
MSG_SHADING == "Check for recurring shading during specific slots"
MSG_RAIL == "Add capacitor near servo supply and verify wiring"
MSG_SENSOR == "Check sensor wiring and recalibrate current offset"
MSG_EFFICIENCY == "Limit movements to high-yield slots to save energy"
MSG_RTC == "Replace RTC battery to avoid time drift"
MSG_HEALTHY == "System healthy. Maintain normal operation."

\* recs.append(msg) when the rule fires
AppendIf(recs, fires, msg) == IF fires THEN Append(recs, msg) ELSE recs

\* The rules with the dust threshold taken as >= 0.6 (mutant).
_generate_recommendations_ge(m) ==
    LET r1 == AppendIf(<<>>, m.dust_probability >= REC_DUST, MSG_DUST)
        r2 == AppendIf(r1, m.shading_probability > REC_SHADING, MSG_SHADING)
        r3 == AppendIf(r2, m.power_rail_risk > REC_RAIL, MSG_RAIL)
        r4 == AppendIf(r3, m.sensor_health < REC_SENSOR, MSG_SENSOR)
        r5 == AppendIf(r4, m.efficiency_score < REC_EFFICIENCY, MSG_EFFICIENCY)
        r6 == AppendIf(r5, m.rtc_reliability_score < REC_RTC, MSG_RTC)
    IN  IF r6 = <<>> THEN <<MSG_HEALTHY>> ELSE r6

_generate_recommendations(m) ==
    LET r1 == AppendIf(<<>>, m.dust_probability > REC_DUST, MSG_DUST)
        r2 == AppendIf(r1, m.shading_probability > REC_SHADING, MSG_SHADING)
        r3 == AppendIf(r2, m.power_rail_risk > REC_RAIL, MSG_RAIL)
        r4 == AppendIf(r3, m.sensor_health < REC_SENSOR, MSG_SENSOR)
        r5 == AppendIf(r4, m.efficiency_score < REC_EFFICIENCY, MSG_EFFICIENCY)
        r6 == AppendIf(r5, m.rtc_reliability_score < REC_RTC, MSG_RTC)
    IN  IF r6 = <<>> THEN <<MSG_HEALTHY>> ELSE r6

(* SpecAdvice: the recommendations for any metrics below, on and above     *)
(* the six thresholds.                                                     *)

\* one step below, on, one step above the threshold
Around(x) == {x - 1, x, x + 1}

AdviceInputs ==
    [dust_probability : Around(REC_DUST),
     shading_probability : Around(REC_SHADING),
     power_rail_risk : Around(REC_RAIL),
     sensor_health : Around(REC_SENSOR),
     efficiency_score : Around(REC_EFFICIENCY),
     rtc_reliability_score : Around(REC_RTC)]

InitAdvice ==
    /\ FaultIdle /\ AlertIdle /\ DataIdle /\ CycleIdle /\ AnalyticsIdle
    /\ scoreIn \in AdviceInputs
    /\ scoreOut = <<>>

Recommend ==
    /\ DOMAIN scoreOut = {}
    /\ scoreOut' = ("recommendations" :> _generate_recommendations(scoreIn))
    /\ UNCHANGED <<faultVars, alertVars, dataVars, cycleVars, analyticsVars, scoreIn>>

NextAdvice == Recommend

SpecAdvice == InitAdvice /\ [][NextAdvice]_vars

Recommended == "recommendations" \in DOMAIN scoreOut

\* The advisory strings of the thresholds the metrics cross.
Crossed ==
    LET rules == {<<scoreIn.dust_probability > 600, MSG_DUST>>,
                  <<scoreIn.shading_probability > 600, MSG_SHADING>>,
                  <<scoreIn.power_rail_risk > 400, MSG_RAIL>>,
                  <<scoreIn.sensor_health < 7000, MSG_SENSOR>>,
                  <<scoreIn.efficiency_score < 6000, MSG_EFFICIENCY>>,
                  <<scoreIn.rtc_reliability_score < 80, MSG_RTC>>}
    IN  {q[2] : q \in {x \in rules : x[1]}}

\* C23: the list is never empty and has no duplicate; it is the single
\* healthy message when no threshold is crossed, and otherwise holds one
\* advisory string for each crossed threshold and not the healthy message.
C23_RecommendationsMatchThresholds ==
    Recommended =>
        LET recs == scoreOut["recommendations"]
            said == {recs[i] : i \in DOMAIN recs}
        IN  /\ Len(recs) >= 1
            /\ Cardinality(said) = Len(recs)
            /\ Crossed = {} => recs = <<MSG_HEALTHY>>
            /\ Crossed # {} => said = Crossed

\* All six metrics exactly on their thresholds: none is crossed.
C23_Witness ==
    /\ Recommended
    /\ scoreIn.dust_probability = 600 /\ scoreIn.shading_probability = 600
    /\ scoreIn.power_rail_risk = 400 /\ scoreIn.sensor_health = 7000
    /\ scoreIn.efficiency_score = 6000 /\ scoreIn.rtc_reliability_score = 80
    /\ scoreOut["recommendations"] = <<MSG_HEALTHY>>

-----------------------------------------------------------------------------
(* Forecast, src/ai_engine.py _forecast_next_hour.  Power is in mW, energy *)
(* in mWh, the confidence in tenths of a percent.                          *)

FORECAST_HOURS == 2        \* two_hours = now - 2 h
TREND_DIV == 10            \* trend * 0.1
FULL_CONFIDENCE_N == 60    \* len(power_vals) / 60.0
SUMMARY_LIMIT == 4         \* .limit(4)
PER_MILLE == 1000          \* confidence 100.0

RECURSIVE SumEnergy(_)
SumEnergy(S) ==
    IF S = {} THEN 0
    ELSE LET r == CHOOSE x \in S : TRUE IN r.energy_wh + SumEnergy(S \ {r})

\* DailySummary rows of the device, the 4 newest by date
LatestSummaries(device_id) ==
    LET rows == {r \in dailySummaries : r.device_id = device_id}
    IN  {r \in rows : Cardinality({o \in rows : o.date > r.date}) < SUMMARY_LIMIT}

\* The forecast with its cap applied also for a mean of 0 (mutant).
CapForecast_always(predicted_wh, latest_summary) ==
    IF latest_summary = {} THEN predicted_wh
    ELSE _clamp(predicted_wh, 0,
                RoundDiv(SumEnergy(latest_summary), Cardinality(latest_summary)))

\* if latest_summary: avg_daily = mean(...); if avg_daily: clamp
CapForecast(predicted_wh, latest_summary) ==
    IF latest_summary = {} THEN predicted_wh
    ELSE LET avg_daily == RoundDiv(SumEnergy(latest_summary),
                                   Cardinality(latest_summary))
         IN  IF avg_daily # 0 THEN _clamp(predicted_wh, 0, avg_daily)
             ELSE predicted_wh

_forecast_next_hour(device_id, now) ==
    LET hour_rows == AscByTs({t \in telemetry :
                                 /\ t.device_id = device_id
                                 /\ t.ts >= now - FORECAST_HOURS * HOUR_S})
        power_vals == {t \in telemetry : /\ t.device_id = device_id
                                         /\ t.ts >= now - HOUR_S}
        avg_power == IF power_vals = {} THEN 0
                     ELSE RoundDiv(SumPower(power_vals), Cardinality(power_vals))
        trend == IF Len(hour_rows) >= 2
                 THEN hour_rows[Len(hour_rows)].e_wh_today - hour_rows[1].e_wh_today
                 ELSE 0
        predicted_wh == Max2(avg_power + RoundDiv(trend, TREND_DIV), 0)
        confidence == RoundDiv(
            PER_MILLE * Min2(Cardinality(power_vals), FULL_CONFIDENCE_N),
            FULL_CONFIDENCE_N)
    IN  IF hour_rows = <<>>
        THEN [predicted_wh |-> 0, confidence |-> 0]
        ELSE [predicted_wh |-> CapForecast(predicted_wh, LatestSummaries(device_id)),
              confidence |-> confidence]

(* SpecForecast: the forecast on any of the telemetry and Daily Summary    *)
(* histories below.                                                        *)

ForecastDevice == "dev1"

MaxDays == 5

\* Samples 3 h, 90 min, 30 min and 10 min before the evaluation; the
\* day's energy counter falls back between the last two.
ForecastSamples ==
    {[id |-> 1, device_id |-> ForecastDevice, ts |-> CYCLE_NOW - 3 * HOUR_S,
      p_w |-> 9000, e_wh_today |-> 0],
     [id |-> 2, device_id |-> ForecastDevice, ts |-> CYCLE_NOW - 3 * HALF_HOUR_S,
      p_w |-> 5000, e_wh_today |-> 10000],
     [id |-> 3, device_id |-> ForecastDevice, ts |-> CYCLE_NOW - HALF_HOUR_S,
      p_w |-> 8000, e_wh_today |-> 130000],
     [id |-> 4, device_id |-> ForecastDevice, ts |-> CYCLE_NOW - BRACKET_S,
      p_w |-> 4000, e_wh_today |-> 5000]}

\* Energies of a day, multiples of 12 so that every mean of up to 4 is whole
DayEnergies == {0, 12 * 200, 12 * 4000}

\* One row per day for the last k days
DailyHistories ==
    UNION {{{[id |-> d, device_id |-> ForecastDevice, date |-> d,
              energy_wh |-> en[d]] : d \in 1..k} : en \in [1..k -> DayEnergies]}
             : k \in 0..MaxDays}

InitForecast ==
    /\ FaultIdle /\ AlertIdle /\ CycleIdle /\ AnalyticsIdle
    /\ active = {} /\ events = {} /\ movementLogs = {} /\ explainer = ""
    /\ telemetry \in SUBSET ForecastSamples
    /\ dailySummaries \in DailyHistories
    /\ commands = {} /\ handed = <<>>
    /\ scoreIn = <<>>
    /\ scoreOut = <<>>

Forecast ==
    /\ DOMAIN scoreOut = {}
    /\ scoreOut' = ("forecast" :> _forecast_next_hour(ForecastDevice, CYCLE_NOW))
    /\ UNCHANGED <<faultVars, alertVars, dataVars, cycleVars, analyticsVars, scoreIn>>

NextForecast == Forecast

SpecForecast == InitForecast /\ [][NextForecast]_vars

Forecasted == "forecast" \in DOMAIN scoreOut

\* C24 as claimed: predicted_wh is never negative; it is 0 with confidence
\* 0 when the trailing 2 h hold no sample; and when the device has a Daily
\* Summary row it is at most the mean energy of its last 4 Daily Summaries.
C24_ForecastCapped ==
    Forecasted =>
        LET r == scoreOut["forecast"]
            last4 == LatestSummaries(ForecastDevice)
        IN  /\ r.predicted_wh >= 0
            /\ (\A t \in telemetry : t.ts < CYCLE_NOW - 2 * HOUR_S) =>
                  r.predicted_wh = 0 /\ r.confidence = 0
            /\ dailySummaries # {} =>
                  r.predicted_wh * Cardinality(last4) <= SumEnergy(last4)

-----------------------------------------------------------------------------
(* SpecParallel: the cycles of the devices run side by side, each in a     *)
(* session of its own, their steps interleaved in any order.  step and     *)
(* metrics hold one value per device here.                                 *)

ParSteps == <<"power_rail", "rtc", "sensor_faults", "alert_rail", "alert_rtc",
              "summary", "commit">>

StepAfter(st) ==
    LET i == CHOOSE k \in DOMAIN ParSteps : ParSteps[k] = st
    IN  IF i = Len(ParSteps) THEN "done" ELSE ParSteps[i + 1]

\* The whole unit of work shared by all cycles (mutant).
SessionRows_shared(d, rows) == rows

\* The rows pending in the session of d's cycle.
SessionRows(d, rows) == {r \in rows : r.device_id = d}

\* The pending detail updates of the session of d's cycle.
SessionDetail(d) ==
    {i \in DOMAIN pendDetail :
        \E r \in SessionRows(d, dbAlerts) : r.id = i}

InitParallel ==
    /\ FaultIdle /\ AlertIdle /\ AnalyticsIdle /\ ScoreIdle
    /\ dbSummaries = {} /\ pendSummaries = {}
    /\ active = Devices
    /\ \E h \in [Devices -> Histories] :
          /\ movementLogs = UNION {MovementRows(d, h[d]) : d \in Devices}
          /\ events = UNION {EventRows(d, h[d]) : d \in Devices}
          /\ telemetry = UNION {TelemetryRows(d, h[d]) : d \in Devices}
    /\ explainer = "" /\ dailySummaries = {}
    /\ commands = {} /\ handed = <<>>
    /\ tick = 1 /\ queue = <<>> /\ started = {} /\ cycleBase = <<>>
    /\ step = [d \in Devices |-> "power_rail"]
    /\ metrics = [d \in Devices |-> NoMetrics]

ParPowerRail ==
    \E d \in Devices :
        /\ step[d] = "power_rail"
        /\ LET out == _power_rail_analysis(FaultView, d, CYCLE_NOW)
           IN  /\ pendFaults' = pendFaults \cup out.added
               /\ metrics' = [metrics EXCEPT
                                 ![d].power_rail_risk = out.power_rail_risk]
        /\ step' = [step EXCEPT ![d] = StepAfter(step[d])]
        /\ UNCHANGED <<dbFaults, faultCalls, nFaultCalls, alertVars, dataVars,
                       restVars, dbSummaries, pendSummaries, tick, queue, started,
                       cycleBase>>

ParRtc ==
    \E d \in Devices :
        /\ step[d] = "rtc"
        /\ LET out == _rtc_stability(FaultView, d, CYCLE_NOW)
           IN  /\ pendFaults' = pendFaults \cup out.added
               /\ metrics' = [metrics EXCEPT
                                 ![d].rtc_reliability_score = out.rtc_reliability_score]
        /\ step' = [step EXCEPT ![d] = StepAfter(step[d])]
        /\ UNCHANGED <<dbFaults, faultCalls, nFaultCalls, alertVars, dataVars,
                       restVars, dbSummaries, pendSummaries, tick, queue, started,
                       cycleBase>>

ParSensorFaults ==
    \E d \in Devices :
        /\ step[d] = "sensor_faults"
        /\ pendFaults' = pendFaults
                           \cup _sensor_fault_patterns(FaultView, d, CYCLE_NOW)
        /\ step' = [step EXCEPT ![d] = StepAfter(step[d])]
        /\ UNCHANGED <<dbFaults, faultCalls, nFaultCalls, alertVars, dataVars,
                       restVars, dbSummaries, pendSummaries, tick, queue, metrics,
                       started, cycleBase>>

ParAlertPowerRail ==
    \E d \in Devices :
        /\ step[d] = "alert_rail"
        /\ LET res == _raise_alert(d, "critical", "Power rail instability",
                                   "supply dip", tick)
           IN  IF RaisePowerRail(metrics[d])
               THEN /\ pendAlerts' = PendAlertsAfter(res)
                    /\ pendDetail' = PendDetailAfter(res)
               ELSE UNCHANGED <<pendAlerts, pendDetail>>
        /\ step' = [step EXCEPT ![d] = StepAfter(step[d])]
        /\ UNCHANGED <<dbAlerts, alertCall, nAlertCalls, nClears, faultVars,
                       dataVars, restVars, dbSummaries, pendSummaries, tick, queue,
                       metrics, started, cycleBase>>

ParAlertRtc ==
    \E d \in Devices :
        /\ step[d] = "alert_rtc"
        /\ LET res == _raise_alert(d, "warn", "RTC instability", "rtc loss", tick)
           IN  IF RaiseRtc(metrics[d])
               THEN /\ pendAlerts' = PendAlertsAfter(res)
                    /\ pendDetail' = PendDetailAfter(res)
               ELSE UNCHANGED <<pendAlerts, pendDetail>>
        /\ step' = [step EXCEPT ![d] = StepAfter(step[d])]
        /\ UNCHANGED <<dbAlerts, alertCall, nAlertCalls, nClears, faultVars,
                       dataVars, restVars, dbSummaries, pendSummaries, tick, queue,
                       metrics, started, cycleBase>>

ParSummarise ==
    \E d \in Devices :
        /\ step[d] = "summary"
        /\ pendSummaries' = AddSummary(d, metrics[d],
                                       _call_gemini_explainer(explainer).text)
        /\ step' = [step EXCEPT ![d] = StepAfter(step[d])]
        /\ UNCHANGED <<faultVars, alertVars, dataVars, restVars, dbSummaries, tick,
                       queue, metrics, started, cycleBase>>

\* db.session.commit() of d's cycle
ParCommit ==
    \E d \in Devices :
        /\ step[d] = "commit"
        /\ dbFaults' = dbFaults \cup SessionRows(d, pendFaults)
        /\ pendFaults' = pendFaults \ SessionRows(d, pendFaults)
        /\ dbAlerts' = {IF r.id \in SessionDetail(d) THEN WithPendingDetail(r)
                        ELSE r : r \in dbAlerts}
                          \cup SessionRows(d, pendAlerts)
        /\ pendAlerts' = pendAlerts \ SessionRows(d, pendAlerts)
        /\ pendDetail' = [i \in DOMAIN pendDetail \ SessionDetail(d) |-> pendDetail[i]]
        /\ dbSummaries' = dbSummaries \cup SessionRows(d, pendSummaries)
        /\ pendSummaries' = pendSummaries \ SessionRows(d, pendSummaries)
        /\ step' = [step EXCEPT ![d] = "done"]
        /\ UNCHANGED <<faultCalls, nFaultCalls, alertCall, nAlertCalls, nClears,
                       dataVars, restVars, tick, queue, metrics, started, cycleBase>>

\* except Exception: db.session.rollback() of d's cycle
ParFails ==
    \E d \in Devices :
        /\ step[d] \notin {"done", "failed"}
        /\ pendFaults' = pendFaults \ SessionRows(d, pendFaults)
        /\ pendAlerts' = pendAlerts \ SessionRows(d, pendAlerts)
        /\ pendDetail' = [i \in DOMAIN pendDetail \ SessionDetail(d) |-> pendDetail[i]]
        /\ pendSummaries' = pendSummaries \ SessionRows(d, pendSummaries)
        /\ step' = [step EXCEPT ![d] = "failed"]
        /\ UNCHANGED <<dbFaults, dbAlerts, dbSummaries, faultCalls, nFaultCalls,
                       alertCall, nAlertCalls, nClears, dataVars, restVars, tick,
                       queue, metrics, started, cycleBase>>

NextParallel ==
    \/ ParPowerRail \/ ParRtc \/ ParSensorFaults \/ ParAlertPowerRail
    \/ ParAlertRtc \/ ParSummarise \/ ParCommit \/ ParFails

SpecParallel == InitParallel /\ [][NextParallel]_vars

(* ----- what a cycle writes when it runs alone --------------------------- *)

\* The rows of a table that belong to device d.
OfDevice(d, rows) == {r \in rows : r.device_id = d}

\* A row without its primary key.
StripId(r) == [f \in DOMAIN r \ {"id"} |-> r[f]]

AloneRail(d) == _power_rail_analysis({}, d, CYCLE_NOW)

AloneRtc(d) == _rtc_stability(AloneRail(d).added, d, CYCLE_NOW)

AloneFaults(d) ==
    AloneRail(d).added \cup AloneRtc(d).added
      \cup _sensor_fault_patterns(AloneRail(d).added \cup AloneRtc(d).added,
                                  d, CYCLE_NOW)

AloneMetrics(d) ==
    [power_rail_risk |-> AloneRail(d).power_rail_risk,
     rtc_reliability_score |-> AloneRtc(d).rtc_reliability_score]

AloneAlerts(d) ==
    {a \in {[device_id |-> d, severity |-> "critical",
             title |-> "Power rail instability", detail |-> "supply dip",
             detail_html |-> render_markdown("supply dip"),
             created_at |-> tick, cleared |-> FALSE]} : RaisePowerRail(AloneMetrics(d))}
    \cup
    {a \in {[device_id |-> d, severity |-> "warn",
             title |-> "RTC instability", detail |-> "rtc loss",
             detail_html |-> render_markdown("rtc loss"),
             created_at |-> tick, cleared |-> FALSE]} : RaiseRtc(AloneMetrics(d))}

\* The rows of all tables, stored or pending, that belong to device d.
RowsOfDevice(d) ==
    <<OfDevice(d, dbFaults), OfDevice(d, pendFaults),
      OfDevice(d, dbAlerts), OfDevice(d, pendAlerts),
      OfDevice(d, dbSummaries), OfDevice(d, pendSummaries),
      [i \in {j \in DOMAIN pendDetail : \E r \in OfDevice(d, dbAlerts) : r.id = j}
          |-> pendDetail[i]]>>

\* C25: every step changes rows of one device only; a cycle that has
\* committed has stored, primary keys aside, exactly the faults, alerts and
\* summary it stores when it runs alone, whatever the other cycle did in
\* between; a cycle that failed or has not committed has stored nothing.
C25_CyclesAreIndependent ==
    [][/\ \E d \in Devices : \A e \in Devices \ {d} :
             RowsOfDevice(e)' = RowsOfDevice(e)
       /\ \A d \in Devices :
             /\ step[d] = "done" =>
                   /\ {StripId(f) : f \in OfDevice(d, dbFaults)}
                         = {StripId(f) : f \in AloneFaults(d)}
                   /\ {StripId(a) : a \in OfDevice(d, dbAlerts)} = AloneAlerts(d)
                   /\ \E r \in dbSummaries :
                         /\ OfDevice(d, dbSummaries) = {r}
                         /\ r.summary.faults = {FaultEntry(f) : f \in AloneFaults(d)}
                         /\ r.summary.alerts
                               = {a.id : a \in OfDevice(d, dbAlerts)}
                         /\ r.summary.power_rail_risk = AloneMetrics(d).power_rail_risk
                         /\ r.summary.rtc_reliability_score
                               = AloneMetrics(d).rtc_reliability_score
             /\ step[d] # "done" =>
                   /\ OfDevice(d, dbFaults) = {}
                   /\ OfDevice(d, dbAlerts) = {}
                   /\ OfDevice(d, dbSummaries) = {}]_vars

\* dev2 has committed a fault and an alert while dev1, which started
\* first and has a fault pending, is still in its cycle.
C25_Witness ==
    /\ step["dev2"] = "done" /\ step["dev1"] = "alert_rail"
    /\ OfDevice("dev1", pendFaults) # {}
    /\ OfDevice("dev2", dbFaults) # {}
    /\ OfDevice("dev2", dbAlerts) # {}
    /\ \E f \in OfDevice("dev1", pendFaults) :
          \E g \in OfDevice("dev2", dbFaults) : f.id < g.id

-----------------------------------------------------------------------------
(* Who clears an alert, on the runs of SpecRecur: the cycles of one device *)
(* with the operator's clear_alert requests between their steps and with  *)
(* movements logged between two runs, which lower the power rail risk.     *)

\* Movements without a reset or a dip after them.
QuietMoves == {30000, 40000, 50000, 60000}

InitRecur ==
    /\ InitCycle
    /\ active = {"dev1"}
    /\ explainer = ""

\* POST /event with event_type "move", between two runs of run_ai_jobs.
QuietMovesLogged ==
    /\ step = "done"
    /\ \E d \in active :
          LET rows == MovementRows(d, [moves |-> QuietMoves])
          IN  /\ rows \cap movementLogs = {}
              /\ movementLogs' = movementLogs \cup rows
    /\ UNCHANGED <<faultVars, alertVars, cycleVars, restVars, active, events,
                   telemetry, explainer, dailySummaries,
                   commands, handed>>

NextRecur == NextCycle \/ QuietMovesLogged

SpecRecur == InitRecur /\ [][NextRecur]_vars


\* The step is the operator's clear_alert request.
OperatorClears == nClears' # nClears

\* The alert step of the running cycle that is taken now, with its title
\* and whether its condition holds.
AlertStepTaken ==
    IF step = "alert_rail" /\ step' = "alert_rtc"
    THEN <<[title |-> "Power rail instability", holds |-> RaisePowerRail(metrics)]>>
    ELSE IF step = "alert_rtc" /\ step' = "explain"
    THEN <<[title |-> "RTC instability", holds |-> RaiseRtc(metrics)]>>
    ELSE <<>>

\* C26: no step of a device cycle changes the cleared flag of an alert: a
\* stored alert keeps its flag through every step but the operator's
\* clear_alert, which only sets it, whether or not the cycle's condition
\* for the alert holds; the rows a cycle has pending are uncleared; and an
\* alert step whose condition holds while the device has no uncleared
\* alert of the title (none ever raised, or all cleared) inserts a new
\* uncleared row.
C26_OnlyOperatorClears ==
    [][/\ \A r \in dbAlerts : \E q \in dbAlerts' :
             /\ q.id = r.id
             /\ r.cleared => q.cleared
             /\ ~OperatorClears => q.cleared = r.cleared
       /\ \A q \in dbAlerts' : q.cleared =>
             \E r \in dbAlerts : r.id = q.id
       /\ \A r \in pendAlerts' : ~r.cleared
       /\ AlertStepTaken # <<>> =>
             LET a == AlertStepTaken[1]
                 fresh == { r \in pendAlerts' :
                              r.id \notin {q.id : q \in AlertView} }
             IN  IF a.holds /\ UnclearedAlerts(AlertView, Current, a.title) = {}
                 THEN \E r \in fresh :
                         /\ fresh = {r}
                         /\ r.device_id = Current /\ r.title = a.title
                         /\ ~r.cleared /\ r.created_at = tick
                 ELSE fresh = {}
      ]_vars

\* C26 witness: in the second run the power rail condition no longer
\* holds and the alert of the first run is still stored uncleared, while
\* the RTC condition holds again and the cycle has inserted a new uncleared
\* row next to the row of the first run, which the operator cleared.
C26_Witness ==
    /\ tick = 2 /\ step = "explain"
    /\ ~RaisePowerRail(metrics) /\ RaiseRtc(metrics)
    /\ \E r \in dbAlerts :
          /\ r.device_id = Current /\ r.title = "Power rail instability"
          /\ ~r.cleared /\ r.created_at = 1
    /\ \E r \in dbAlerts : \E q \in pendAlerts :
          /\ r.cleared /\ r.created_at = 1
          /\ r.device_id = Current /\ q.device_id = Current
          /\ r.title = "RTC instability" /\ q.title = r.title
          /\ ~q.cleared /\ q.id # r.id /\ q.created_at = 2

-----------------------------------------------------------------------------
(* A second run on unchanged data, on the runs of SpecCycle: the history    *)
(* rows and the evaluation time CYCLE_NOW are the same in every run.       *)

\* A cycle of device d has committed before.
RanBefore(d) == \E r \in dbSummaries : r.device_id = d /\ r.generated_at < tick

\* Every alert title device d has a stored row of still has an uncleared
\* one: the operator has not cleared what the earlier runs raised.
AlertsStand(d) ==
    \A t \in AlertTitles :
        (\E r \in dbAlerts : r.device_id = d /\ r.title = t)
            => UnclearedAlerts(dbAlerts, d, t) # {}

-----------------------------------------------------------------------------
(* What a raise changes on an existing alert, on the runs of SpecAlert.    *)

\* The columns of an alert row that _raise_alert does not assign.
KeptColumns(r) ==
    [id |-> r.id, device_id |-> r.device_id, title |-> r.title,
     severity |-> r.severity, created_at |-> r.created_at,
     cleared |-> r.cleared]

\* C28: a raise_alert call that finds an uncleared alert of its (device,
\* title) changes the detail and the rendered detail of that row and
\* nothing else: the row keeps its severity, created timestamp and cleared
\* flag whatever severity the call passes, and every other row the session
\* sees is as it was.
C28_RaiseKeepsSeverity ==
    alertCall # <<>> =>
        LET c == alertCall[1]
            had == UnclearedAlerts(c.before, c.device_id, c.title)
        IN  had # {} =>
              \E old \in had :
                 /\ AlertView \ {c.row} = c.before \ {old}
                 /\ c.row \in AlertView
                 /\ KeptColumns(c.row) = KeptColumns(old)
                 /\ c.row.detail = c.detail
                 /\ c.row.detail_html = render_markdown(c.detail)

\* C28 witness: the call passed another severity and another detail than
\* the uncleared row it found, which is a committed row.
C28_Witness ==
    /\ alertCall # <<>>
    /\ ~alertCall[1].inserted
    /\ \E r \in dbAlerts :
          /\ r.id = alertCall[1].row.id
          /\ r.severity # alertCall[1].severity
          /\ r.detail # alertCall[1].detail
          /\ r.created_at # nAlertCalls

-----------------------------------------------------------------------------
(* The rows of the slot statistics table over the passes, on SpecSlot.     *)

\* The (device, slot, rounded angle) of a Slot Statistic row.
BucketOf(r) == <<r.device_id, r.slot, r.angle_deg>>

OneRowPerBucket(stats) ==
    \A a, b \in stats : BucketOf(a) = BucketOf(b) => a = b

\* C29: from a store with at most one Slot Statistic row per (device,
\* slot, rounded angle), after any number of generate_slot_statistics
\* passes over any telemetry there is at most one row per (device, slot,
\* rounded angle), and no pass deletes a row: every stored row is there
\* after the pass, with its id and its bucket.
C29_OneRowPerBucketKept ==
    /\ []OneRowPerBucket(slotStats)
    /\ [][\A r \in slotStats : \E q \in slotStats' :
               q.id = r.id /\ BucketOf(q) = BucketOf(r)]_vars

\* C29 witness: the second pass has just run; it updated the row of one
\* bucket, whose count grew, and kept the row of another bucket, which it
\* did not touch.
C29_Witness ==
    /\ Len(passLog) = 2 /\ JustAggregated
    /\ passLog[1].clock < clock
    /\ \E r, q \in slotStats :
          /\ BucketOf(r) # BucketOf(q)
          /\ r.last_updated < clock
          /\ q.last_updated = clock
          /\ \E o \in passLog[1].stats :
                o.id = q.id /\ o.sample_count < q.sample_count

-----------------------------------------------------------------------------
(* Command queue: routes/api.send_command, next_command, command_ack and   *)
(* the status of command_history.  SpecCommands: the owner queues          *)
(* commands, the devices poll and acknowledge, time passes; every request  *)
(* runs in its own session and commits before it answers.                  *)

MaxCommands == 2           \* send_command requests in one behaviour
MaxCmdTime == 1            \* clock values of SpecCommands: 0 .. MaxCmdTime

CommandNames == {"set_angle", "clean"}

\* Command(device_id=..., cmd=cmd_name, ...): created_at, sent and
\* acknowledged take their column defaults.
send_command(device_id, cmd_name, now) ==
    commands \cup
        {[id |-> NextId(commands), device_id |-> device_id, cmd |-> cmd_name,
          created_at |-> now, sent |-> FALSE, acknowledged |-> FALSE,
          acknowledged_at |-> None]}

\* The query of next_command without its sent=False filter (mutant).
QueuedCommands_unacked(device_id) ==
    {c \in commands : c.device_id = device_id /\ ~c.acknowledged}

\* Command.query.filter_by(device_id=..., sent=False, acknowledged=False)
QueuedCommands(device_id) ==
    {c \in commands : c.device_id = device_id /\ ~c.sent /\ ~c.acknowledged}

\* .order_by(Command.created_at.asc()).first(): the rows that may come
\* first; rows of one created_at come in any order.
FirstQueued(device_id) ==
    {c \in QueuedCommands(device_id) :
        \A o \in QueuedCommands(device_id) : c.created_at <= o.created_at}

\* cmd.sent = True; db.session.commit()
MarkSent(cmd_id) ==
    {IF c.id = cmd_id THEN [c EXCEPT !.sent = TRUE] ELSE c : c \in commands}

\* command_ack on the row it found: acknowledged, acknowledged_at, sent.
command_ack(device_id, cmd_id, now) ==
    {IF c.id = cmd_id /\ c.device_id = device_id
     THEN [c EXCEPT !.acknowledged = TRUE, !.acknowledged_at = now,
                    !.sent = TRUE]
     ELSE c : c \in commands}

\* command_history: the status of a row.
CommandStatus(c) ==
    IF c.acknowledged THEN "executed" ELSE IF c.sent THEN "sent" ELSE "pending"

InitCommands ==
    FaultIdle /\ AlertIdle /\ DataIdle /\ CycleIdle /\ AnalyticsIdle /\ ScoreIdle

\* POST /send_cmd/<device_id>
SendCommandRequest ==
    /\ Cardinality(commands) < MaxCommands
    /\ \E d \in Devices, n \in CommandNames :
          commands' = send_command(d, n, clock)
    /\ UNCHANGED <<faultVars, alertVars, cycleVars, restVars, active,
                   movementLogs, events, telemetry, explainer, dailySummaries,
                   handed>>

\* GET /cmd/<device_id>: {"cmd": None} when nothing is queued.
NextCommandRequest ==
    /\ \E d \in Devices :
          IF FirstQueued(d) = {}
          THEN UNCHANGED <<commands, handed>>
          ELSE \E c \in FirstQueued(d) :
                  /\ commands' = MarkSent(c.id)
                  /\ handed' = Append(handed, [device_id |-> d, cmd_id |-> c.id,
                                               cmd |-> c.cmd])
    /\ UNCHANGED <<faultVars, alertVars, cycleVars, restVars, active,
                   movementLogs, events, telemetry, explainer, dailySummaries>>

\* POST /cmd_ack: 404 when the device has no command of that id.
CommandAckRequest ==
    /\ \E d \in Devices, i \in 1..MaxCommands :
          commands' = command_ack(d, i, clock)
    /\ UNCHANGED <<faultVars, alertVars, cycleVars, restVars, active,
                   movementLogs, events, telemetry, explainer, dailySummaries,
                   handed>>

CommandTimePasses ==
    /\ clock < MaxCmdTime
    /\ clock' = clock + 1
    /\ UNCHANGED <<faultVars, alertVars, dataVars, cycleVars, scoreVars,
                   settings, slotStats, pendStats, projection, passLog>>

NextCommands ==
    \/ SendCommandRequest \/ NextCommandRequest \/ CommandAckRequest
    \/ CommandTimePasses

SpecCommands == InitCommands /\ [][NextCommands]_vars

StatusRank(c) ==
    IF CommandStatus(c) = "pending" THEN 0
    ELSE IF CommandStatus(c) = "sent" THEN 1 ELSE 2

\* The commands of device d that are neither sent nor acknowledged.
Unsent(d) ==
    {c \in commands : c.device_id = d /\ c.sent = FALSE /\ c.acknowledged = FALSE}

====
